---- MODULE Spec2Model ----
(***************************************************************************)
(* Flagship feature flags: the targeting engine (lib/targeting.ts, in two   *)
(* copies), the SDK client and its cache (packages/sdk/src/index.ts), the  *)
(* React provider (packages/sdk-react/src/FlagshipProvider.tsx) and the    *)
(* delivery of webhooks (apps/dashboard/lib/webhooks.ts).                  *)
(*                                                                         *)
(* Strings are sequences of UTF-16 code units, as charCodeAt reads them.   *)
(* A 32-bit integer is a pair <<hi, lo>> of 16-bit halves (its two's       *)
(* complement bit pattern), so that the wraparound of the hash accumulator *)
(* is computed exactly.  A percentage is a rational number, written as its *)
(* numerator over the denominator PctScale.                                *)
(***************************************************************************)
EXTENDS Integers, Sequences, FiniteSets, TLC

VARIABLES
    hashCall,       \* the call of hashString made, with what it returned
    rolloutCall,    \* the call of isInRollout made, with what it returned
    condCall,       \* the call of evaluateCondition made, with what it returned
    evalCall,       \* the call of evaluateTargeting made, with what it returned
    interleaved,    \* the number of evaluations made between a call and its repeat
    distribution,   \* the loop of the distribution tests: index and counters
    config,         \* FlagshipClient.config, with what the caller passed
    cache,          \* FlagshipClient.cache
    now,            \* Date.now()
    calls,          \* the calls of getFlags made, in order
    cleared,        \* clearCache() has returned and getFlags() was not called since
    flagCall,       \* the call of isEnabled, getValue or useFlag made, with what it returned
    props,          \* the props FlagshipProvider was last rendered with
    context,        \* the state of FlagshipProvider: flags, loading, error
    fetches,        \* the calls of fetchFlags made, in order
    interval,       \* the fetchFlags that setInterval was given, by the user it closes over
    deliveries,     \* the collection webhook_deliveries
    webhookCalls    \* the calls of sendWebhook made, in order

targetingVars == <<hashCall, rolloutCall, condCall, evalCall, interleaved>>

clientVars == <<config, cache, now, calls, cleared>>

providerVars == <<props, context, fetches, interval>>

webhookVars == <<deliveries, webhookCalls>>

vars ==
    <<hashCall, rolloutCall, condCall, evalCall, interleaved, distribution,
      config, cache, now, calls, cleared,
      flagCall, props, context, fetches, interval, deliveries, webhookCalls>>

\* No call recorded yet.
NoCall == [fn |-> "none"]

\* No client constructed.
NoClient == [t |-> "undefined"]

\* No FlagshipProvider rendered.
NoProvider == [t |-> "undefined"]

(***************************************************************************)
(* Bounds of the model.                                                    *)
(***************************************************************************)
\* Percentages are multiples of 1/PctScale.
PctScale == 2
\* Longest string over HashAlphabet handed to hashString besides HashSamples.
MaxHashLen == 2
\* Longest rule list of a targeting configuration.
MaxRules == 2
\* Longest rule list of a configuration that is evaluated twice.
MaxRepeatRules == 1
\* Most evaluations for other users or flags interleaved between the two.
MaxInterleaved == 1

\* Most calls of getFlags on the client.
MaxCalls == 2
\* Most milliseconds the clock advances one at a time, before and after a
\* leap of the default TTL.
MaxAge == 1

\* Most calls of sendWebhook.
MaxSends == 2

(***************************************************************************)
(* Strings.                                                                *)
(***************************************************************************)
Colon == <<58>>
EmptyStr == <<>>
Str_beta == <<98, 101, 116, 97>>
Str_dark == <<100, 97, 114, 107>>
Str_alice == <<97, 108, 105, 99, 101>>
Str_bob == <<98, 111, 98>>
Str_c == <<99>>
Str_d == <<100>>
Str_a == <<97>>
Str_u == <<117>>
Str_premium == <<112, 114, 101, 109, 105, 117, 109>>
Str_free == <<102, 114, 101, 101>>
Str_TR == <<84, 82>>
Str_US == <<85, 83>>
Str_DE == <<68, 69>>
Str_UK == <<85, 75>>
Str_5 == <<53>>
Str_TR_US_UK == <<84, 82, 44, 85, 83, 44, 85, 75>>
Str_TR_US_spaced == <<84, 82, 44, 32, 85, 83>>
Str_testFlag == <<116, 101, 115, 116, 45, 102, 108, 97, 103>>
Str_userDash == <<117, 115, 101, 114, 45>>
Str_anon == <<97, 110, 111, 110, 45>>
Str_test == <<116, 101, 115, 116>>
Str_testUser123 == <<116, 101, 115, 116, 45, 117, 115, 101, 114, 45, 49, 50, 51>>
Str_GydZG_ == <<71, 121, 100, 90, 71, 95>>
Str_polygenelubricants ==
    <<112, 111, 108, 121, 103, 101, 110, 101, 108, 117, 98, 114, 105, 99, 97, 110, 116, 115>>

(***************************************************************************)
(* 32-bit integers.                                                        *)
(***************************************************************************)
Half == 256 * 256

Int32Zero == <<0, 0>>

\* -2^31, whose absolute value is no signed 32-bit integer.
Int32Min == <<32768, 0>>

IsNegative(w) == w[1] >= 32768

\* a + b, wrapped to 32 bits.
Add32(a, b) ==
    LET lo == a[2] + b[2]
    IN  <<(a[1] + b[1] + (lo \div Half)) % Half, lo % Half>>

\* The two's complement of a: -a, wrapped to 32 bits.
Neg32(a) == Add32(<<(Half - 1) - a[1], (Half - 1) - a[2]>>, <<0, 1>>)

\* a - b, wrapped to 32 bits.
Sub32(a, b) == Add32(a, Neg32(b))

\* hash << 5
Shl5(a) ==
    LET lo == a[2] * 32
    IN  <<(a[1] * 32 + (lo \div Half)) % Half, lo % Half>>

\* Math.abs of a 32-bit integer: a number in 0 .. 2^31, as a double holds it.
\* The pair is read unsigned here: Int32Min maps to 2^31 itself.
MathAbs(w) == IF IsNegative(w) THEN Neg32(w) ELSE w

\* n % 100 for a non-negative n given as halves (65536 % 100 = 36).
Mod100(n) == ((n[1] % 100) * 36 + (n[2] % 100)) % 100

(***************************************************************************)
(* hashString                                                              *)
(***************************************************************************)
\* (hash << 5) + hash + char: the accumulator times 33, not times 31.
HashStep_plusHash(hash, char) == Add32(Add32(Shl5(hash), hash), <<0, char>>)

\* One round of the loop body: hash = (hash << 5) - hash + char; hash & hash.
HashStep(hash, char) == Add32(Sub32(Shl5(hash), hash), <<0, char>>)

\* The loop from index i on.  Each round's accumulator is a value before the
\* next round starts.
RECURSIVE HashLoop(_, _, _)
HashLoop(str, i, hash) ==
    IF i > Len(str) THEN hash
    ELSE CHOOSE result \in {HashLoop(str, i + 1, next) :
                               next \in {HashStep(hash, str[i])}} : TRUE

\* The accumulator when the loop ends.
HashAccumulator(str) == HashLoop(str, 1, Int32Zero)

\* Math.abs in 32-bit arithmetic: -2^31 stays negative, and % keeps the sign.
hashString_abs32(str) ==
    LET hash == HashAccumulator(str)
    IN  IF hash = Int32Min THEN 0 - Mod100(hash) ELSE Mod100(MathAbs(hash))

\* No Math.abs: % keeps the sign of a negative accumulator.
hashString_noAbs(str) ==
    LET hash == HashAccumulator(str)
    IN  IF IsNegative(hash) THEN 0 - Mod100(Neg32(hash)) ELSE Mod100(hash)

hashString(str) == Mod100(MathAbs(HashAccumulator(str)))

(***************************************************************************)
(* isInRollout                                                             *)
(***************************************************************************)
\* The percentage n, and the percentage 100.
Pct(n) == n * PctScale

\* bucket < percentage, the percentage being over PctScale.
BucketBelow(bucket, percentage) == bucket * PctScale < percentage

\* The combined string with the user id first.
isInRollout_reversed(userId, flagKey, percentage) ==
    IF percentage = Pct(0) THEN FALSE
    ELSE IF percentage = Pct(100) THEN TRUE
    ELSE LET combinedStr == userId \o Colon \o flagKey
             bucket == hashString(combinedStr)
         IN  BucketBelow(bucket, percentage)

\* The percentage is taken for a fraction of 1: bucket < percentage / 100.
isInRollout_fraction(userId, flagKey, percentage) ==
    IF percentage = Pct(0) THEN FALSE
    ELSE IF percentage = Pct(100) THEN TRUE
    ELSE LET combinedStr == flagKey \o Colon \o userId
             bucket == hashString(combinedStr)
         IN  BucketBelow(bucket * 100, percentage)

\* The comparison turned round: bucket >= percentage.
isInRollout_above(userId, flagKey, percentage) ==
    IF percentage = Pct(0) THEN FALSE
    ELSE IF percentage = Pct(100) THEN TRUE
    ELSE LET combinedStr == flagKey \o Colon \o userId
             bucket == hashString(combinedStr)
         IN  ~BucketBelow(bucket, percentage)

isInRollout(userId, flagKey, percentage) ==
    IF percentage = Pct(0) THEN FALSE
    ELSE IF percentage = Pct(100) THEN TRUE
    ELSE LET combinedStr == flagKey \o Colon \o userId
             bucket == hashString(combinedStr)
         IN  BucketBelow(bucket, percentage)

(***************************************************************************)
(* The copy in apps/dashboard/lib/targeting.ts: hashString returns the      *)
(* magnitude of the accumulator, and isInRollout reduces it modulo 100.    *)
(***************************************************************************)
lib_hashString(str) == MathAbs(HashAccumulator(str))

\* The combined string with the user id first.
lib_isInRollout_userFirst(userId, flagKey, percentage) ==
    IF percentage = Pct(0) THEN FALSE
    ELSE IF percentage = Pct(100) THEN TRUE
    ELSE LET combinedStr == userId \o Colon \o flagKey
             hash == lib_hashString(combinedStr)
             bucket == Mod100(hash)
         IN  BucketBelow(bucket, percentage)

lib_isInRollout(userId, flagKey, percentage) ==
    IF percentage = Pct(0) THEN FALSE
    ELSE IF percentage = Pct(100) THEN TRUE
    ELSE LET combinedStr == flagKey \o Colon \o userId
             hash == lib_hashString(combinedStr)
             bucket == Mod100(hash)
         IN  BucketBelow(bucket, percentage)

(***************************************************************************)
(* JavaScript values: a tag and a payload.                                 *)
(***************************************************************************)
UndefinedV == [t |-> "undefined"]
NullV == [t |-> "null"]
StrV(s) == [t |-> "string", v |-> s]
NumV(n) == [t |-> "number", v |-> n]
NaNV == [t |-> "number", nan |-> TRUE]
BoolV(b) == [t |-> "boolean", v |-> b]
ArrV(a) == [t |-> "array", v |-> a]
\* An object: a function from its own keys to their values.
ObjV(o) == [t |-> "object", v |-> o]
\* A built-in function, by its name.
FunV(name) == [t |-> "function", v |-> name]

IsNaN(x) == x.t = "number" /\ "nan" \in DOMAIN x

\* The id is never found: every user is taken for an anonymous one.
Falsy_always(x) == TRUE

\* !x for an optional string: undefined and the empty string are falsy.
Falsy(x) == x.t = "undefined" \/ (x.t = "string" /\ x.v = EmptyStr)

\* a === b.  NaN equals nothing; arrays, objects and functions are equal only
\* to themselves, and a user value and a condition value are never one object.
StrictEquals(a, b) ==
    /\ a.t = b.t
    /\ CASE a.t \in {"undefined", "null"} -> TRUE
         [] a.t = "number" -> ~IsNaN(a) /\ ~IsNaN(b) /\ a.v = b.v
         [] a.t \in {"string", "boolean"} -> a.v = b.v
         [] OTHER -> FALSE

\* The comparison of Array.prototype.includes: === except that NaN equals NaN.
SameValueZero(a, b) == StrictEquals(a, b) \/ (IsNaN(a) /\ IsNaN(b))

(***************************************************************************)
(* String(x), Number(x) and the string and array methods the code calls.   *)
(***************************************************************************)
Str_undefined == <<117, 110, 100, 101, 102, 105, 110, 101, 100>>
Str_null == <<110, 117, 108, 108>>
Str_true == <<116, 114, 117, 101>>
Str_false == <<102, 97, 108, 115, 101>>
Str_NaN == <<78, 97, 78>>
Str_objectObject == <<91, 111, 98, 106, 101, 99, 116, 32, 79, 98, 106, 101, 99, 116, 93>>
Str_function == <<102, 117, 110, 99, 116, 105, 111, 110, 32>>
Str_nativeCode ==
    <<40, 41, 32, 123, 32, 91, 110, 97, 116, 105, 118, 101, 32, 99, 111, 100, 101, 93, 32, 125>>
Comma == <<44>>
Minus == <<45>>

\* The decimal digits of n >= 0.
RECURSIVE Digits(_)
Digits(n) == IF n < 10 THEN <<48 + n>> ELSE Digits(n \div 10) \o <<48 + (n % 10)>>

\* The code units of a function's name.
NameUnits(name) ==
    CASE name = "constructor" -> <<79, 98, 106, 101, 99, 116>>
      [] name = "toString" -> <<116, 111, 83, 116, 114, 105, 110, 103>>
      [] name = "valueOf" -> <<118, 97, 108, 117, 101, 79, 102>>
      [] OTHER -> <<104, 97, 115, 79, 119, 110, 80, 114, 111, 112, 101, 114, 116, 121>>

\* String(x); an array is joined with commas, null and undefined elements
\* giving the empty string.
RECURSIVE String(_)
RECURSIVE Join(_, _)
Join(arr, i) ==
    IF i > Len(arr) THEN EmptyStr
    ELSE (IF i > 1 THEN Comma ELSE EmptyStr)
         \o (IF arr[i].t \in {"undefined", "null"} THEN EmptyStr ELSE String(arr[i]))
         \o Join(arr, i + 1)
String(x) ==
    CASE x.t = "undefined" -> Str_undefined
      [] x.t = "null" -> Str_null
      [] x.t = "boolean" -> IF x.v THEN Str_true ELSE Str_false
      [] x.t = "number" -> IF IsNaN(x) THEN Str_NaN
                           ELSE IF x.v < 0 THEN Minus \o Digits(0 - x.v)
                           ELSE Digits(x.v)
      [] x.t = "string" -> x.v
      [] x.t = "array" -> Join(x.v, 1)
      [] x.t = "function" -> Str_function \o NameUnits(x.v) \o Str_nativeCode
      [] OTHER -> Str_objectObject

\* White space: tab, line feed, carriage return, space.
WhiteSpace == {9, 10, 13, 32}

\* s.trim()
RECURSIVE trim(_)
trim(s) ==
    IF s = EmptyStr THEN s
    ELSE IF s[1] \in WhiteSpace THEN trim(Tail(s))
    ELSE IF s[Len(s)] \in WhiteSpace THEN trim(SubSeq(s, 1, Len(s) - 1))
    ELSE s

\* s.split(','): the pieces between the commas, from index i on, piece being
\* the one under way.
RECURSIVE SplitFrom(_, _, _)
SplitFrom(s, i, piece) ==
    IF i > Len(s) THEN <<piece>>
    ELSE IF s[i] = Comma[1] THEN <<piece>> \o SplitFrom(s, i + 1, EmptyStr)
    ELSE SplitFrom(s, i + 1, Append(piece, s[i]))
split(s) == SplitFrom(s, 1, EmptyStr)

\* s.includes(sub)
StringIncludes(s, sub) ==
    \E i \in 0 .. (Len(s) - Len(sub)) : SubSeq(s, i + 1, i + Len(sub)) = sub

\* values.includes(x)
ArrayIncludes(values, x) == \E i \in 1 .. Len(values) : SameValueZero(values[i], x)

IsDigits(s) == s # EmptyStr /\ \A i \in 1 .. Len(s) : s[i] \in 48 .. 57

RECURSIVE DigitsValue(_)
DigitsValue(s) ==
    IF s = EmptyStr THEN 0
    ELSE DigitsValue(SubSeq(s, 1, Len(s) - 1)) * 10 + (s[Len(s)] - 48)

\* Number(s) of a string: white space is trimmed, the empty string is 0, a
\* signed run of decimal digits is its value, and a string with any other
\* character than a digit, a sign, '.', 'e', 'E', 'x', 'o', 'b', 'I' is NaN.
\* (Strings with those letters or a point may be other numeric literals; the
\* model is called with none.)
StringToNumber(s) ==
    LET t == trim(s)
    IN  IF t = EmptyStr THEN NumV(0)
        ELSE IF IsDigits(t) THEN NumV(DigitsValue(t))
        ELSE IF t[1] = 43 /\ IsDigits(Tail(t)) THEN NumV(DigitsValue(Tail(t)))
        ELSE IF t[1] = 45 /\ IsDigits(Tail(t)) THEN NumV(0 - DigitsValue(Tail(t)))
        ELSE NaNV

\* Number(x)
Number(x) ==
    CASE x.t = "undefined" -> NaNV
      [] x.t = "null" -> NumV(0)
      [] x.t = "boolean" -> IF x.v THEN NumV(1) ELSE NumV(0)
      [] x.t = "number" -> x
      [] x.t = "string" -> StringToNumber(x.v)
      [] x.t = "array" -> StringToNumber(String(x))
      [] OTHER -> NaNV

\* a < b on numbers: false when either is NaN.
NumLess(a, b) == ~IsNaN(a) /\ ~IsNaN(b) /\ a.v < b.v
\* < in place of <=.
NumLessEq_strict(a, b) == ~IsNaN(a) /\ ~IsNaN(b) /\ a.v < b.v

\* a <= b on numbers: false when either is NaN.
NumLessEq(a, b) == ~IsNaN(a) /\ ~IsNaN(b) /\ a.v <= b.v

(***************************************************************************)
(* evaluateCondition                                                       *)
(***************************************************************************)
\* The values the operator 'in' looks the user value up in.
InValues(conditionValue) ==
    IF conditionValue.t = "array" THEN conditionValue.v
    ELSE LET pieces == split(String(conditionValue))
         IN  [i \in 1 .. Len(pieces) |-> StrV(trim(pieces[i]))]

\* The default case of the switch returns true.
evaluateCondition_defaultTrue(userValue, operator, conditionValue) ==
    IF userValue.t = "undefined" THEN FALSE
    ELSE CASE operator = "eq" -> StrictEquals(userValue, conditionValue)
           [] operator = "ne" -> ~StrictEquals(userValue, conditionValue)
           [] operator = "contains" ->
                  StringIncludes(String(userValue), String(conditionValue))
           [] operator = "in" -> ArrayIncludes(InValues(conditionValue), userValue)
           [] operator = "gt" -> NumLess(Number(conditionValue), Number(userValue))
           [] operator = "lt" -> NumLess(Number(userValue), Number(conditionValue))
           [] operator = "gte" -> NumLessEq(Number(conditionValue), Number(userValue))
           [] operator = "lte" -> NumLessEq(Number(userValue), Number(conditionValue))
           [] OTHER -> TRUE

evaluateCondition(userValue, operator, conditionValue) ==
    IF userValue.t = "undefined" THEN FALSE
    ELSE CASE operator = "eq" -> StrictEquals(userValue, conditionValue)
           [] operator = "ne" -> ~StrictEquals(userValue, conditionValue)
           [] operator = "contains" ->
                  StringIncludes(String(userValue), String(conditionValue))
           [] operator = "in" -> ArrayIncludes(InValues(conditionValue), userValue)
           [] operator = "gt" -> NumLess(Number(conditionValue), Number(userValue))
           [] operator = "lt" -> NumLess(Number(userValue), Number(conditionValue))
           [] operator = "gte" -> NumLessEq(Number(conditionValue), Number(userValue))
           [] operator = "lte" -> NumLessEq(Number(userValue), Number(conditionValue))
           [] OTHER -> FALSE

\* The members every object inherits from Object.prototype (some of them).
ObjectPrototypeKeys == {"constructor", "toString", "valueOf", "hasOwnProperty"}

\* user.attributes?.[condition.attribute]: the object's own property, or the
\* one it inherits from Object.prototype, or undefined.
AttributeOf(user, attribute) ==
    IF user.attributes.t = "undefined" THEN UndefinedV
    ELSE IF attribute \in DOMAIN user.attributes.v
    THEN user.attributes.v[attribute]
    ELSE IF attribute \in ObjectPrototypeKeys THEN FunV(attribute)
    ELSE UndefinedV

evaluateConditionWithUser(condition, user) ==
    evaluateCondition(AttributeOf(user, condition.attribute),
                      condition.operator, condition.value)

(***************************************************************************)
(* The copy of evaluateCondition in apps/dashboard/lib/targeting.ts: it    *)
(* reads the attribute itself, and 'in' takes an array only.               *)
(***************************************************************************)
lib_evaluateCondition(condition, user) ==
    LET userValue == AttributeOf(user, condition.attribute)
    IN  IF userValue.t = "undefined" THEN FALSE
        ELSE CASE condition.operator = "eq" -> StrictEquals(userValue, condition.value)
               [] condition.operator = "ne" -> ~StrictEquals(userValue, condition.value)
               [] condition.operator = "contains" ->
                      StringIncludes(String(userValue), String(condition.value))
               [] condition.operator = "in" ->
                      condition.value.t = "array"
                      /\ ArrayIncludes(condition.value.v, userValue)
               [] condition.operator = "gt" ->
                      NumLess(Number(condition.value), Number(userValue))
               [] condition.operator = "lt" ->
                      NumLess(Number(userValue), Number(condition.value))
               [] condition.operator = "gte" ->
                      NumLessEq(Number(condition.value), Number(userValue))
               [] condition.operator = "lte" ->
                      NumLessEq(Number(userValue), Number(condition.value))
               [] OTHER -> FALSE

(***************************************************************************)
(* evaluateRule                                                            *)
(***************************************************************************)
\* The value of a result that carries none.
NoValue == UndefinedV

\* some() in place of every().
AllConditionsMatch_some(rule, user) ==
    \E i \in 1 .. Len(rule.conditions) :
        evaluateConditionWithUser(rule.conditions[i], user)

\* rule.conditions.every(...)
AllConditionsMatch(rule, user) ==
    \A i \in 1 .. Len(rule.conditions) :
        evaluateConditionWithUser(rule.conditions[i], user)

\* randomBucket <= rule.rolloutPercentage in place of <.
evaluateRule_bucketAtMost(rule, user, flagKey, random) ==
    IF ~rule.enabled THEN [matches |-> FALSE, value |-> NoValue]
    ELSE IF ~AllConditionsMatch(rule, user)
    THEN [matches |-> FALSE, value |-> NoValue]
    ELSE IF Falsy(user.id)
    THEN [matches |-> random.bucket * PctScale <= rule.rolloutPercentage,
          value |-> rule.value]
    ELSE [matches |-> isInRollout(user.id.v, flagKey, rule.rolloutPercentage),
          value |-> rule.value]

\* The rule's enabled flag is not read.
evaluateRule_ignoresEnabled(rule, user, flagKey, random) ==
    IF ~AllConditionsMatch(rule, user)
    THEN [matches |-> FALSE, value |-> NoValue]
    ELSE IF Falsy(user.id)
    THEN [matches |-> BucketBelow(random.bucket, rule.rolloutPercentage),
          value |-> rule.value]
    ELSE [matches |-> isInRollout(user.id.v, flagKey, rule.rolloutPercentage),
          value |-> rule.value]

\* random is the outcome of the Math.random() call the rule makes, if it makes
\* one: random.bucket is Math.floor(random * 100).
evaluateRule(rule, user, flagKey, random) ==
    IF ~rule.enabled THEN [matches |-> FALSE, value |-> NoValue]
    ELSE IF ~AllConditionsMatch(rule, user)
    THEN [matches |-> FALSE, value |-> NoValue]
    ELSE IF Falsy(user.id)
    THEN [matches |-> BucketBelow(random.bucket, rule.rolloutPercentage),
          value |-> rule.value]
    ELSE [matches |-> isInRollout(user.id.v, flagKey, rule.rolloutPercentage),
          value |-> rule.value]

(***************************************************************************)
(* evaluateTargeting                                                       *)
(***************************************************************************)
\* Outcomes of Math.random() the model draws from: 0, 0.03, 0.04 and 0.99,
\* each with Math.floor(r * 100) and String(r).  The buckets include the least
\* and the greatest, 0 and 99; so do the hashes of the anonymous ids made of
\* them for the flag key 'c' ('c:anon-0.04' hashes to 0 and 'c:anon-0.03'
\* to 99).
RandomDraws ==
    { [bucket |-> 0, text |-> <<48>>],
      [bucket |-> 3, text |-> <<48, 46, 48, 51>>],
      [bucket |-> 4, text |-> <<48, 46, 48, 52>>],
      [bucket |-> 99, text |-> <<48, 46, 57, 57>>] }

\* No targeting configuration.
NoTargeting == [t |-> "undefined"]

\* The Math.random() outcomes an evaluation for this user can draw: the code
\* calls Math.random() only when user.id is falsy.
NoDraw == [bucket |-> 0, text |-> EmptyStr]
DrawsFor(user) == IF Falsy(user.id) THEN RandomDraws ELSE {NoDraw}

\* The result of the default rule, over every outcome of Math.random().
DefaultRuleResults(flagKey, targeting, user) ==
    { LET userId == IF Falsy(user.id) THEN Str_anon \o random.text
                    ELSE user.id.v
          inDefaultRollout ==
              isInRollout(userId, flagKey, targeting.defaultRule.rolloutPercentage)
      IN  [enabled |-> inDefaultRollout, value |-> targeting.defaultRule.value]
      : random \in DrawsFor(user) }

\* The loop does not return at the first match: the last matching rule wins.
RECURSIVE EvaluateFrom_lastMatchWins(_, _, _, _)
EvaluateFrom_lastMatchWins(flagKey, targeting, user, i) ==
    IF i > Len(targeting.rules) THEN DefaultRuleResults(flagKey, targeting, user)
    ELSE LET rule == targeting.rules[Len(targeting.rules) + 1 - i]
             results == {evaluateRule(rule, user, flagKey, random) :
                            random \in DrawsFor(user)}
         IN  {[enabled |-> TRUE, value |-> result.value] :
                 result \in {r \in results : r.matches}}
             \cup (IF \E r \in results : ~r.matches
                   THEN EvaluateFrom_lastMatchWins(flagKey, targeting, user, i + 1)
                   ELSE {})

\* A rule whose conditions match and whose rollout excludes the user ends the
\* loop: the default rule decides.
RECURSIVE EvaluateFrom_stopsOnRolloutMiss(_, _, _, _)
EvaluateFrom_stopsOnRolloutMiss(flagKey, targeting, user, i) ==
    IF i > Len(targeting.rules) THEN DefaultRuleResults(flagKey, targeting, user)
    ELSE LET results == {evaluateRule(targeting.rules[i], user, flagKey, random) :
                            random \in DrawsFor(user)}
         IN  {[enabled |-> TRUE, value |-> result.value] :
                 result \in {r \in results : r.matches}}
             \cup (IF \E r \in results : ~r.matches /\ r.value # NoValue
                   THEN DefaultRuleResults(flagKey, targeting, user)
                   ELSE {})
             \cup (IF \E r \in results : ~r.matches /\ r.value = NoValue
                   THEN EvaluateFrom_stopsOnRolloutMiss(flagKey, targeting, user, i + 1)
                   ELSE {})

\* The default rule's result is always enabled.
RECURSIVE EvaluateFrom_defaultEnabled(_, _, _, _)
EvaluateFrom_defaultEnabled(flagKey, targeting, user, i) ==
    IF i > Len(targeting.rules)
    THEN {[enabled |-> TRUE, value |-> targeting.defaultRule.value]}
    ELSE LET results == {evaluateRule(targeting.rules[i], user, flagKey, random) :
                            random \in DrawsFor(user)}
         IN  {[enabled |-> TRUE, value |-> result.value] :
                 result \in {r \in results : r.matches}}
             \cup (IF \E r \in results : ~r.matches
                   THEN EvaluateFrom_defaultEnabled(flagKey, targeting, user, i + 1)
                   ELSE {})

\* A rule that wins with the value false is returned as not enabled.
RECURSIVE EvaluateFrom_enabledIsValue(_, _, _, _)
EvaluateFrom_enabledIsValue(flagKey, targeting, user, i) ==
    IF i > Len(targeting.rules) THEN DefaultRuleResults(flagKey, targeting, user)
    ELSE LET results == {evaluateRule(targeting.rules[i], user, flagKey, random) :
                            random \in DrawsFor(user)}
         IN  {[enabled |-> result.value # BoolV(FALSE), value |-> result.value] :
                 result \in {r \in results : r.matches}}
             \cup (IF \E r \in results : ~r.matches
                   THEN EvaluateFrom_enabledIsValue(flagKey, targeting, user, i + 1)
                   ELSE {})

\* The results of the loop over targeting.rules from index i on, and of the
\* default rule after it, over every outcome of the Math.random() calls made.
RECURSIVE EvaluateFrom(_, _, _, _)
EvaluateFrom(flagKey, targeting, user, i) ==
    IF i > Len(targeting.rules) THEN DefaultRuleResults(flagKey, targeting, user)
    ELSE LET results == {evaluateRule(targeting.rules[i], user, flagKey, random) :
                            random \in DrawsFor(user)}
         IN  {[enabled |-> TRUE, value |-> result.value] :
                 result \in {r \in results : r.matches}}
             \cup (IF \E r \in results : ~r.matches
                   THEN EvaluateFrom(flagKey, targeting, user, i + 1)
                   ELSE {})

\* targeting.enabled is not read.
evaluateTargeting_ignoresEnabled(flagKey, targeting, user, defaultValue) ==
    IF targeting = NoTargeting
    THEN {[enabled |-> TRUE, value |-> defaultValue]}
    ELSE EvaluateFrom(flagKey, targeting, user, 1)

\* Every result evaluateTargeting can return for these arguments.
evaluateTargeting(flagKey, targeting, user, defaultValue) ==
    IF targeting = NoTargeting \/ ~targeting.enabled
    THEN {[enabled |-> TRUE, value |-> defaultValue]}
    ELSE EvaluateFrom(flagKey, targeting, user, 1)

(***************************************************************************)
(* The arguments the calls are made with.                                  *)
(***************************************************************************)
\* The flag keys evaluateTargeting is called with.
FlagKeys == {Str_c, Str_d}

\* user.id: absent, empty, or one of two ids.
UserIds == {UndefinedV, StrV(EmptyStr), StrV(Str_a), StrV(Str_u)}

UserAttributes ==
    { UndefinedV,
      ObjV([plan |-> StrV(Str_premium), country |-> StrV(Str_TR)]),
      ObjV([plan |-> StrV(Str_premium), country |-> StrV(Str_US)]),
      ObjV([plan |-> StrV(Str_free), country |-> StrV(Str_TR)]) }

Users == [id : UserIds, attributes : UserAttributes]

PlanIsPremium == [attribute |-> "plan", operator |-> "eq", value |-> StrV(Str_premium)]
CountryIsTR == [attribute |-> "country", operator |-> "eq", value |-> StrV(Str_TR)]

ConditionLists == {<<>>, <<PlanIsPremium, CountryIsTR>>}

EvalPercentages == {Pct(0), Pct(50), Pct(100)}

\* A rule's value is opaque to the evaluator: the rule at position i of a list
\* carries the number i.  A rule's id and description are never read.
RuleAt(i) ==
    [conditions : ConditionLists, rolloutPercentage : EvalPercentages,
     value : {NumV(i)}, enabled : BOOLEAN]

\* The rule lists of length n.
RECURSIVE RuleListsOfLen(_)
RuleListsOfLen(n) ==
    IF n = 0 THEN {<<>>}
    ELSE {Append(rules, rule) : rules \in RuleListsOfLen(n - 1), rule \in RuleAt(n)}

\* The targeting configurations with at most n rules.
TargetingsUpTo(n) ==
    [enabled : BOOLEAN, rules : UNION {RuleListsOfLen(k) : k \in 0 .. n},
     defaultRule : [rolloutPercentage : EvalPercentages, value : {BoolV(FALSE)}]]

DefaultValues == {BoolV(TRUE)}

\* The strings hashString is called with.
HashSamples ==
    { EmptyStr, Str_test, Str_testUser123, Str_GydZG_, Str_polygenelubricants,
      Str_beta \o Colon \o Str_alice, Str_beta \o Colon \o Str_bob }

\* Code units: 'a', ':', and the largest.
HashAlphabet == {97, 58, 65535}

RECURSIVE StringsOfLen(_)
StringsOfLen(n) ==
    IF n = 0 THEN {EmptyStr}
    ELSE {Append(str, char) : str \in StringsOfLen(n - 1), char \in HashAlphabet}

HashInputs == HashSamples \cup UNION {StringsOfLen(n) : n \in 0 .. MaxHashLen}

\* The flag keys, user ids and percentages isInRollout is called with: every
\* multiple of 1/PctScale from below 0 to above 100.
RolloutFlagKeys == {Str_beta, Str_dark}
RolloutUserIds == {EmptyStr, Str_alice, Str_bob}
RolloutPercentages == (0 - PctScale - 1) .. (Pct(100) + PctScale + 1)

(***************************************************************************)
(* Calls of hashString and isInRollout.                                    *)
(***************************************************************************)
\* No call recorded yet.
Idle ==
    hashCall = NoCall /\ rolloutCall = NoCall /\ condCall = NoCall /\ evalCall = NoCall

\* hashString is called and returns.
CallHashString ==
    /\ Idle
    /\ \E str \in HashInputs :
          hashCall' = [fn |-> "hashString", str |-> str, ret |-> hashString(str)]
    /\ UNCHANGED <<rolloutCall, condCall, evalCall, interleaved, distribution, clientVars,
                 flagCall, providerVars, webhookVars>>

\* isInRollout is called and returns.
CallIsInRollout ==
    /\ Idle
    /\ \E userId \in RolloutUserIds, flagKey \in RolloutFlagKeys,
          percentage \in RolloutPercentages :
          rolloutCall' = [fn |-> "isInRollout", userId |-> userId,
                          flagKey |-> flagKey, percentage |-> percentage,
                          ret |-> isInRollout(userId, flagKey, percentage),
                          libRet |-> lib_isInRollout(userId, flagKey, percentage)]
    /\ UNCHANGED <<hashCall, condCall, evalCall, interleaved, distribution, clientVars,
                 flagCall, providerVars, webhookVars>>

(***************************************************************************)
(* Calls of evaluateTargeting.                                             *)
(***************************************************************************)
\* No second result recorded.
NoResult == [t |-> "none"]

\* evaluateTargeting is called with a configuration of the given set, and returns.
EvaluateIn(targetings) ==
    /\ Idle
    /\ \E flagKey \in FlagKeys, targeting \in targetings \cup {NoTargeting},
          user \in Users, defaultValue \in DefaultValues :
          \E result \in evaluateTargeting(flagKey, targeting, user, defaultValue) :
              evalCall' = [fn |-> "evaluateTargeting", flagKey |-> flagKey,
                           targeting |-> targeting, user |-> user,
                           defaultValue |-> defaultValue, result |-> result,
                           again |-> NoResult]
    /\ UNCHANGED <<hashCall, rolloutCall, condCall, interleaved, distribution, clientVars,
                 flagCall, providerVars, webhookVars>>

Evaluate == EvaluateIn(TargetingsUpTo(MaxRules))

EvaluateFirst == EvaluateIn(TargetingsUpTo(MaxRepeatRules))

\* The id made up for a user without one is stored in the user object.
InputsAfter_storesAnonymousId(targeting, user, defaultValue) ==
    [targeting |-> targeting,
     user |-> IF Falsy(user.id) THEN [user EXCEPT !.id = StrV(Str_anon \o <<48>>)]
              ELSE user,
     defaultValue |-> defaultValue]

\* The objects passed to evaluateTargeting as the call leaves them: neither
\* evaluateTargeting nor evaluateRule assigns to a field of targeting, of a
\* rule, of user or of defaultValue, and the anonymous id is a local constant.
InputsAfter(targeting, user, defaultValue) ==
    [targeting |-> targeting, user |-> user, defaultValue |-> defaultValue]

\* An evaluation for another user or flag runs in between and returns: it is
\* given the same targeting object and default value, and another user.
EvaluateOther ==
    /\ evalCall # NoCall
    /\ evalCall.again = NoResult
    /\ interleaved < MaxInterleaved
    /\ \E flagKey \in FlagKeys, id \in UserIds :
          /\ <<flagKey, id>> # <<evalCall.flagKey, evalCall.user.id>>
          /\ \E result \in evaluateTargeting(flagKey, evalCall.targeting,
                                             [evalCall.user EXCEPT !.id = id],
                                             evalCall.defaultValue) :
                LET after == InputsAfter(evalCall.targeting,
                                         [evalCall.user EXCEPT !.id = id],
                                         evalCall.defaultValue)
                IN  /\ interleaved' = interleaved + 1
                    /\ evalCall' = [evalCall EXCEPT
                                        !.targeting = after.targeting,
                                        !.defaultValue = after.defaultValue]
    /\ UNCHANGED <<hashCall, rolloutCall, condCall, distribution, clientVars,
                 flagCall, providerVars, webhookVars>>

\* evaluateTargeting is called again with the arguments of the recorded call.
EvaluateAgain ==
    /\ evalCall # NoCall
    /\ evalCall.again = NoResult
    /\ \E result \in evaluateTargeting(evalCall.flagKey, evalCall.targeting,
                                       evalCall.user, evalCall.defaultValue) :
          LET after == InputsAfter(evalCall.targeting, evalCall.user,
                                   evalCall.defaultValue)
          IN  evalCall' = [evalCall EXCEPT !.again = result,
                                           !.targeting = after.targeting,
                                           !.user = after.user,
                                           !.defaultValue = after.defaultValue]
    /\ UNCHANGED <<hashCall, rolloutCall, condCall, interleaved, distribution, clientVars,
                 flagCall, providerVars, webhookVars>>

(***************************************************************************)
(* Calls of evaluateCondition, through evaluateConditionWithUser and in    *)
(* the dashboard copy.                                                     *)
(***************************************************************************)
\* Attribute values of every type, numeric strings and NaN among them.
CondUserValues ==
    { StrV(Str_TR), StrV(Str_DE), StrV(Str_US), StrV(Str_5), StrV(EmptyStr),
      NumV(5), NumV(25), NumV(30), NaNV, BoolV(TRUE), NullV,
      ArrV(<<StrV(Str_TR)>>) }

\* Users without attributes, with no attribute, and with the attribute 'value'.
CondUsers ==
    [id : {StrV(Str_a)},
     attributes : {UndefinedV, ObjV(<<>>)} \cup {ObjV([value |-> u]) : u \in CondUserValues}]

\* The attribute users may have, one they never have, and a name every
\* object inherits a member for.
CondAttributes == {"value", "other", "constructor"}

\* The eight operators and an unknown one.
CondOperators == {"eq", "ne", "contains", "in", "gt", "lt", "gte", "lte", "regex"}

\* Condition values of the shape each operator expects, and of others.
CondValues ==
    { StrV(Str_TR_US_UK), StrV(Str_TR_US_spaced), StrV(Str_TR), StrV(Str_5),
      StrV(EmptyStr),
      ArrV(<<StrV(Str_TR), StrV(Str_US), StrV(Str_UK)>>), ArrV(<<NumV(5), NaNV>>),
      ArrV(<<>>),
      NumV(5), NumV(25), NaNV, UndefinedV, NullV, BoolV(TRUE) }

Conditions == [attribute : CondAttributes, operator : CondOperators, value : CondValues]

\* A condition is evaluated for a user, by both copies of the evaluator.
CallEvaluateCondition ==
    /\ Idle
    /\ \E condition \in Conditions, user \in CondUsers :
          condCall' = [fn |-> "evaluateCondition", condition |-> condition,
                       user |-> user,
                       userValue |-> AttributeOf(user, condition.attribute),
                       ret |-> evaluateConditionWithUser(condition, user),
                       libRet |-> lib_evaluateCondition(condition, user)]
    /\ UNCHANGED <<hashCall, rolloutCall, evalCall, interleaved, distribution, clientVars,
                 flagCall, providerVars, webhookVars>>

\* Configurations with no rule, or with one enabled rule at 100% that has one
\* condition, of any operator and value.
CondRule(condition) ==
    [enabled |-> TRUE, conditions |-> <<condition>>,
     rolloutPercentage |-> Pct(100), value |-> NumV(1)]

CondTargetings ==
    [enabled : BOOLEAN,
     rules : {<<>>} \cup {<<CondRule(condition)>> : condition \in Conditions},
     defaultRule : [rolloutPercentage : {Pct(0), Pct(50)}, value : {BoolV(FALSE)}]]

\* evaluateTargeting is called for a user with or without id and attributes,
\* with such a configuration or none, and returns.
EvaluateCondRule ==
    /\ Idle
    /\ \E targeting \in CondTargetings \cup {NoTargeting},
          id \in {UndefinedV, StrV(Str_a)}, user \in CondUsers,
          defaultValue \in DefaultValues :
          \E result \in evaluateTargeting(Str_c, targeting, [user EXCEPT !.id = id],
                                             defaultValue) :
              evalCall' = [fn |-> "evaluateTargeting", flagKey |-> Str_c,
                           targeting |-> targeting,
                           user |-> [user EXCEPT !.id = id],
                           defaultValue |-> defaultValue, result |-> result,
                           again |-> NoResult]
    /\ UNCHANGED <<hashCall, rolloutCall, condCall, interleaved, distribution, clientVars,
                 flagCall, providerVars, webhookVars>>

(***************************************************************************)
(* Calls of evaluateTargeting for a user without id.                       *)
(***************************************************************************)
\* An enabled rule without conditions at the given percentage.
OpenRule(percentage) ==
    [enabled |-> TRUE, conditions |-> <<>>,
     rolloutPercentage |-> percentage, value |-> NumV(1)]

\* Enabled configurations: no rule and a default rule of any percentage, or
\* one open rule of any percentage and a default rule at 0% or 50%.
AnonymousTargetings ==
    {[enabled |-> TRUE, rules |-> <<>>,
      defaultRule |-> [rolloutPercentage |-> q, value |-> BoolV(FALSE)]] :
        q \in RolloutPercentages}
    \cup
    {[enabled |-> TRUE, rules |-> <<OpenRule(p)>>,
      defaultRule |-> [rolloutPercentage |-> q, value |-> BoolV(FALSE)]] :
        p \in RolloutPercentages, q \in {Pct(0), Pct(50)}}

\* evaluateTargeting is called for a user without id, and returns.
EvaluateAnonymous ==
    /\ Idle
    /\ \E targeting \in AnonymousTargetings, attributes \in UserAttributes,
          defaultValue \in DefaultValues :
          LET user == [id |-> UndefinedV, attributes |-> attributes]
          IN  \E result \in evaluateTargeting(Str_c, targeting, user, defaultValue) :
                  evalCall' = [fn |-> "evaluateTargeting", flagKey |-> Str_c,
                               targeting |-> targeting, user |-> user,
                               defaultValue |-> defaultValue, result |-> result,
                               again |-> NoResult]
    /\ UNCHANGED <<hashCall, rolloutCall, condCall, interleaved, distribution, clientVars,
                 flagCall, providerVars, webhookVars>>

(***************************************************************************)
(* Evaluations whose values are falsy: false and 0 for the rules, '' for   *)
(* the default rule, null for the caller's default.                        *)
(***************************************************************************)
FalsyRules ==
    [conditions : ConditionLists, rolloutPercentage : EvalPercentages,
     value : {BoolV(FALSE), NumV(0)}, enabled : BOOLEAN]

\* The rule lists of length n.
RECURSIVE FalsyRuleListsOfLen(_)
FalsyRuleListsOfLen(n) ==
    IF n = 0 THEN {<<>>}
    ELSE {Append(rules, rule) : rules \in FalsyRuleListsOfLen(n - 1), rule \in FalsyRules}

FalsyTargetings ==
    [enabled : BOOLEAN,
     rules : UNION {FalsyRuleListsOfLen(k) : k \in 0 .. MaxRepeatRules},
     defaultRule : [rolloutPercentage : EvalPercentages, value : {StrV(EmptyStr)}]]

\* evaluateTargeting is called with falsy values, and returns.
EvaluateFalsy ==
    /\ Idle
    /\ \E flagKey \in FlagKeys, targeting \in FalsyTargetings \cup {NoTargeting},
          user \in Users :
          \E result \in evaluateTargeting(flagKey, targeting, user, NullV) :
              evalCall' = [fn |-> "evaluateTargeting", flagKey |-> flagKey,
                           targeting |-> targeting, user |-> user,
                           defaultValue |-> NullV, result |-> result,
                           again |-> NoResult]
    /\ UNCHANGED <<hashCall, rolloutCall, condCall, interleaved, distribution, clientVars,
                   flagCall, providerVars, webhookVars>>

(***************************************************************************)
(* The distribution tests: isInRollout and evaluateTargeting for the flag  *)
(* 'test-flag' and the users 'user-0', 'user-1', ...                       *)
(***************************************************************************)
totalUsers == 100

\* `user-${i}`
UserNumber(i) == Str_userDash \o Digits(i)

\* One rule without conditions at 50%, and a default rule at 0%.
percentageTargeting ==
    [enabled |-> TRUE,
     rules |-> <<[enabled |-> TRUE, conditions |-> <<>>,
                  rolloutPercentage |-> Pct(50), value |-> BoolV(TRUE)]>>,
     defaultRule |-> [rolloutPercentage |-> Pct(0), value |-> BoolV(FALSE)]]

NewDistribution == [i |-> 0, includedCount |-> 0, enabledCount |-> 0]

\* One round of the loops: the next user is counted if isInRollout includes
\* it, and if evaluateTargeting returns enabled for it.
DistributionStep ==
    /\ distribution.i < totalUsers
    /\ LET userId == UserNumber(distribution.i)
           user == [id |-> StrV(userId), attributes |-> UndefinedV]
       IN  \E result \in evaluateTargeting(Str_testFlag, percentageTargeting, user,
                                             BoolV(FALSE)) :
               distribution' =
                   [i |-> distribution.i + 1,
                    includedCount |->
                        distribution.includedCount
                        + (IF isInRollout(userId, Str_testFlag, Pct(50)) THEN 1 ELSE 0),
                    enabledCount |->
                        distribution.enabledCount + (IF result.enabled THEN 1 ELSE 0)]
    /\ UNCHANGED <<targetingVars, clientVars,
                 flagCall, providerVars, webhookVars>>

(***************************************************************************)
(* FlagshipClient (packages/sdk/src/index.ts): the cache of getFlags.      *)
(***************************************************************************)
DefaultCacheTTL == 60000

\* !x for an optional number: undefined, 0 and NaN are falsy.
FalsyNumber(x) == x.t = "undefined" \/ IsNaN(x) \/ x.v = 0

\* The constructor: config.cacheTTL || 60000.  The configuration keeps what
\* the caller passed beside what the constructor made of it.
FlagshipClient(cacheTTL) ==
    [passed |-> cacheTTL,
     cacheTTL |-> IF FalsyNumber(cacheTTL) THEN DefaultCacheTTL ELSE cacheTTL.v]

\* The cacheTTL the caller passes: none, 0, a few milliseconds.
PassedTTLs == {UndefinedV, NumV(0), NumV(MaxAge)}

\* The users getFlags is called for.
ClientUsers ==
    { [id |-> StrV(Str_a), attributes |-> UndefinedV],
      [id |-> StrV(Str_u), attributes |-> UndefinedV] }

\* this.cache && Date.now() - this.cache.timestamp < this.config.cacheTTL
CacheIsFresh == cache # NullV /\ now - cache.timestamp < config.cacheTTL

\* getFlags(user) is called: it returns the cached response, or sends the
\* request and awaits the response.  The call is recorded with what it found:
\* whether there was an entry, and of which age.
GetFlags ==
    /\ config # NoClient
    /\ Len(calls) < MaxCalls
    /\ \E user \in ClientUsers :
          calls' = Append(calls,
                          [user |-> user,
                           cached |-> cache # NullV,
                           age |-> IF cache = NullV THEN 0 ELSE now - cache.timestamp,
                           afterClear |-> cleared,
                           pc |-> IF CacheIsFresh THEN "returned" ELSE "fetching",
                           hit |-> CacheIsFresh,
                           result |-> IF CacheIsFresh THEN cache.data ELSE NullV])
    /\ cleared' = FALSE
    /\ UNCHANGED <<config, cache, now, targetingVars, distribution,
                 flagCall, providerVars, webhookVars>>

\* The response of a request arrives with status OK: the call stores it in
\* the cache with the time of now, and returns it.  A response is told from
\* another by the call that fetched it.
ResponseOk ==
    /\ \E i \in 1 .. Len(calls) :
          /\ calls[i].pc = "fetching"
          /\ LET data == [fetchedBy |-> i, user |-> calls[i].user]
             IN  /\ cache' = [data |-> data, timestamp |-> now]
                 /\ calls' = [calls EXCEPT ![i].pc = "returned", ![i].result = data]
    /\ UNCHANGED <<config, now, cleared, targetingVars, distribution,
                 flagCall, providerVars, webhookVars>>

\* A failed request drops the entry of the cache.
ResponseError_dropsEntry ==
    /\ \E i \in 1 .. Len(calls) :
          /\ calls[i].pc = "fetching"
          /\ calls' = [calls EXCEPT ![i].pc = "rejected"]
    /\ cache' = NullV
    /\ UNCHANGED <<config, now, cleared, targetingVars, distribution,
                   flagCall, providerVars, webhookVars>>

\* The response of a request arrives with another status, or the request
\* fails: the call throws.
ResponseError ==
    /\ \E i \in 1 .. Len(calls) :
          /\ calls[i].pc = "fetching"
          /\ calls' = [calls EXCEPT ![i].pc = "rejected"]
    /\ UNCHANGED <<config, cache, now, cleared, targetingVars, distribution,
                 flagCall, providerVars, webhookVars>>

\* clearCache()
ClearCache ==
    /\ config # NoClient
    /\ cache' = NullV
    /\ cleared' = TRUE
    /\ UNCHANGED <<config, now, calls, targetingVars, distribution,
                 flagCall, providerVars, webhookVars>>

\* Time passes: a millisecond, or the default TTL; MaxAge milliseconds at most
\* before and after the default TTL has passed.
Tick ==
    /\ \E delta \in {1, DefaultCacheTTL} :
          /\ now + delta <= DefaultCacheTTL + MaxAge
          /\ (now + delta) % DefaultCacheTTL <= MaxAge
          /\ now' = now + delta
    /\ UNCHANGED <<config, cache, calls, cleared, targetingVars, distribution,
                 flagCall, providerVars, webhookVars>>

(***************************************************************************)
(* FlagshipClient.isEnabled and getValue: the accessors of a response.     *)
(***************************************************************************)
Str_light == <<108, 105, 103, 104, 116>>
Str_boolean == <<98, 111, 111, 108, 101, 97, 110>>
Str_number == <<110, 117, 109, 98, 101, 114>>
Str_multivariate == <<109, 117, 108, 116, 105, 118, 97, 114, 105, 97, 116, 101>>

\* obj[key]: the object's own property, or the one it inherits from
\* Object.prototype, or undefined.
Property(obj, key) ==
    IF obj.t = "object" /\ key \in DOMAIN obj.v THEN obj.v[key]
    ELSE IF key \in ObjectPrototypeKeys THEN FunV(key)
    ELSE UndefinedV

\* x as a condition: undefined, null, false, 0, NaN and '' are falsy.
Truthy(x) ==
    CASE x.t \in {"undefined", "null"} -> FALSE
      [] x.t = "boolean" -> x.v
      [] x.t = "number" -> ~IsNaN(x) /\ x.v # 0
      [] x.t = "string" -> x.v # EmptyStr
      [] OTHER -> TRUE

isEnabled(flagKey, flags) ==
    LET flag == Property(flags.flags, flagKey)
    IN  IF Truthy(flag) THEN Property(flag, "enabled") ELSE BoolV(FALSE)

getValue(flagKey, flags, defaultValue) ==
    LET flag == Property(flags.flags, flagKey)
    IN  IF ~Truthy(flag) \/ ~Truthy(Property(flag, "enabled"))
        THEN defaultValue
        ELSE Property(flag, "value")

\* The type of a flag with the value v.
FlagTypeOf(v) ==
    CASE v.t = "boolean" -> StrV(Str_boolean)
      [] v.t = "number" -> StrV(Str_number)
      [] OTHER -> StrV(Str_multivariate)

\* A FlagValue.
FlagValue(enabled, v) ==
    ObjV([enabled |-> BoolV(enabled), value |-> v, type |-> FlagTypeOf(v)])

\* The flags of a response: enabled or not, with a truthy or a falsy value.
FlagValues ==
    { FlagValue(enabled, v) :
        enabled \in BOOLEAN, v \in {StrV(Str_dark), BoolV(FALSE), NumV(0)} }

\* The flag keys of a response.
ResponseKeys == {"theme", "beta"}

\* The responses: every assignment of flags to some of the keys.
FlagsResponses ==
    { [flags |-> ObjV(map)] :
        map \in UNION { [keys -> FlagValues] : keys \in SUBSET ResponseKeys } }

\* The flag keys asked for: those of the responses, one that no response
\* has, and one that names a member of Object.prototype.
AskedKeys == ResponseKeys \cup {"other", "constructor"}

\* The default values passed to getValue and useFlag.
AskedDefaults == {StrV(Str_light), NullV}

\* client.isEnabled(flagKey, flags) is called and returns.
CallIsEnabled ==
    /\ flagCall = NoCall
    /\ \E flagKey \in AskedKeys, flags \in FlagsResponses :
          flagCall' = [fn |-> "isEnabled", flagKey |-> flagKey, flags |-> flags,
                       ret |-> isEnabled(flagKey, flags)]
    /\ UNCHANGED <<targetingVars, distribution, clientVars, providerVars, webhookVars>>

\* client.getValue(flagKey, flags, defaultValue) is called and returns.
CallGetValue ==
    /\ flagCall = NoCall
    /\ \E flagKey \in AskedKeys, flags \in FlagsResponses,
          defaultValue \in AskedDefaults :
          flagCall' = [fn |-> "getValue", flagKey |-> flagKey, flags |-> flags,
                       defaultValue |-> defaultValue,
                       ret |-> getValue(flagKey, flags, defaultValue)]
    /\ UNCHANGED <<targetingVars, distribution, clientVars, providerVars, webhookVars>>

(***************************************************************************)
(* FlagshipProvider and useFlag (packages/sdk-react/src).  The provider    *)
(* calls getFlags of the client it was given; the cache of the client is   *)
(* the one of FlagshipClient above.  An awaited promise that is already    *)
(* settled resumes before any other event, so a fetchFlags that is served  *)
(* from the cache runs to its end in one step.                             *)
(***************************************************************************)
\* The flags the API evaluates for a user.
FlagsFor(user) ==
    IF user.id = StrV(Str_a)
    THEN ObjV([theme |-> FlagValue(TRUE, StrV(Str_dark)),
               beta |-> FlagValue(TRUE, BoolV(FALSE))])
    ELSE ObjV([theme |-> FlagValue(FALSE, StrV(Str_dark))])

\* The response to the request that the i-th fetchFlags sent for the user.
ResponseTo(i, user) == [fetchedBy |-> i, user |-> user, flags |-> FlagsFor(user)]

\* An Error.
AnError == [t |-> "Error"]

\* useState(null), useState(true), useState(null)
NewContext == [flags |-> NullV, loading |-> TRUE, error |-> NullV]

\* The fetches that await their response.
InFlight == {i \in 1 .. Len(fetches) : fetches[i].pc = "fetching"}

\* fetchFlags, in the render that closed over the user, up to its await:
\* setLoading(true), setError(null), and getFlags(user), which returns the
\* cached response or sends a request.  The state of the provider after it:
ContextAfterStart(state) ==
    IF CacheIsFresh
    THEN [flags |-> cache.data, loading |-> FALSE, error |-> NullV]
    ELSE [state EXCEPT !.loading = TRUE, !.error = NullV]

\* and the call, recorded.
FetchFlags(state, closedOver) ==
    /\ Len(fetches) < MaxCalls
    /\ context' = ContextAfterStart(state)
    /\ fetches' = Append(fetches,
                         [user |-> closedOver,
                          pc |-> IF CacheIsFresh THEN "resolved" ELSE "fetching",
                          result |-> IF CacheIsFresh THEN cache.data ELSE NullV])

\* The refreshInterval prop: none, 0, a minute.
RefreshIntervals == {UndefinedV, NumV(0), NumV(DefaultCacheTTL)}

\* The first render and its effects: fetchFlags(), and setInterval(fetchFlags)
\* when refreshInterval && refreshInterval > 0.
Mount ==
    /\ config # NoClient
    /\ props = NoProvider
    /\ \E user \in ClientUsers, refreshInterval \in RefreshIntervals :
          /\ props' = [user |-> user, refreshInterval |-> refreshInterval]
          /\ interval' = IF Truthy(refreshInterval) /\ refreshInterval.v > 0
                         THEN [user |-> user]
                         ELSE NoProvider
          /\ FetchFlags(NewContext, user)
    /\ UNCHANGED <<targetingVars, distribution, clientVars, flagCall, webhookVars>>

\* The provider is rendered with another user: the effect that depends on
\* the user runs fetchFlags of this render; the interval keeps the
\* fetchFlags it was given.
UserChange ==
    /\ props # NoProvider
    /\ \E user \in ClientUsers \ {props.user} :
          /\ props' = [props EXCEPT !.user = user]
          /\ FetchFlags(context, user)
    /\ UNCHANGED <<targetingVars, distribution, clientVars, flagCall, interval,
                   webhookVars>>

\* A consumer calls refresh(), the fetchFlags of the last render.
Refresh ==
    /\ props # NoProvider
    /\ FetchFlags(context, props.user)
    /\ UNCHANGED <<targetingVars, distribution, clientVars, flagCall, props, interval,
                   webhookVars>>

\* The interval fires: the fetchFlags of the render that set it runs.
IntervalFires ==
    /\ interval # NoProvider
    /\ FetchFlags(context, interval.user)
    /\ UNCHANGED <<targetingVars, distribution, clientVars, flagCall, props, interval,
                   webhookVars>>

\* The response of a request arrives with status OK: getFlags stores it in
\* the cache and returns it, and fetchFlags resumes: setFlags(result),
\* setLoading(false).
FetchResolves ==
    /\ \E i \in InFlight :
          LET data == ResponseTo(i, fetches[i].user)
          IN  /\ cache' = [data |-> data, timestamp |-> now]
              /\ context' = [context EXCEPT !.flags = data, !.loading = FALSE]
              /\ fetches' = [fetches EXCEPT ![i].pc = "resolved", ![i].result = data]
    /\ UNCHANGED <<targetingVars, distribution, config, now, calls, cleared, flagCall,
                   props, interval, webhookVars>>

\* The response arrives with another status, or the request fails: getFlags
\* throws, and fetchFlags resumes: setError(err), setLoading(false).
FetchRejects ==
    /\ \E i \in InFlight :
          /\ context' = [context EXCEPT !.error = AnError, !.loading = FALSE]
          /\ fetches' = [fetches EXCEPT ![i].pc = "rejected"]
    /\ UNCHANGED <<targetingVars, distribution, clientVars, flagCall, props, interval,
                   webhookVars>>

\* useFlag(flagKey, defaultValue) in the state of the provider.
useFlag(state, flagKey, defaultValue) ==
    IF state.flags = NullV \/ state.loading
    THEN [enabled |-> BoolV(FALSE), value |-> defaultValue,
          loading |-> state.loading, error |-> state.error]
    ELSE LET flag == Property(state.flags.flags, flagKey)
         IN  [enabled |-> IF Truthy(flag) THEN Property(flag, "enabled") ELSE BoolV(FALSE),
              value |-> IF Truthy(flag) /\ Truthy(Property(flag, "enabled"))
                        THEN Property(flag, "value")
                        ELSE defaultValue,
              loading |-> FALSE, error |-> state.error]

\* A component under the provider calls useFlag.
CallUseFlag ==
    /\ flagCall = NoCall
    /\ context # NoProvider
    /\ \E flagKey \in AskedKeys, defaultValue \in AskedDefaults :
          flagCall' = [fn |-> "useFlag", flagKey |-> flagKey,
                       defaultValue |-> defaultValue, context |-> context,
                       ret |-> useFlag(context, flagKey, defaultValue)]
    /\ UNCHANGED <<targetingVars, distribution, clientVars, providerVars, webhookVars>>

(***************************************************************************)
(* sendWebhook and logWebhookDelivery (apps/dashboard/lib/webhooks.ts).    *)
(* A call runs from await to await: the signature, the request, the body   *)
(* of the response, the write of the delivery; what each of them answers   *)
(* is not in the hands of the code and is any of the answers it can give.  *)
(***************************************************************************)
Str_secret == <<115, 101, 99, 114, 101, 116>>

\* The webhooks: enabled or not, with a secret or without.
Webhooks ==
    { [id |-> id, enabled |-> enabled, secret |-> secret] :
        id \in {"w1"}, enabled \in BOOLEAN, secret \in {UndefinedV, StrV(Str_secret)} }

\* The events of the payloads.
WebhookEvents == {"flag.toggled"}

\* The status codes a server answers with.
StatusCodes == {200, 500}

\* What fetch answers: a response with one of the status codes, or an error.
FetchAnswers == {NumV(statusCode) : statusCode \in StatusCodes} \cup {AnError}

\* response.ok
ResponseOkStatus(statusCode) == statusCode.v >= 200 /\ statusCode.v <= 299

\* No status code: the request did not get a response.
NoStatusCode == UndefinedV

\* Every delivery is logged as a success.
Delivery_alwaysSuccess(call, success, statusCode) ==
    [webhookId |-> call.webhook.id, event |-> call.event, status |-> "success",
     statusCode |-> statusCode, attemptCount |-> 1]

\* The delivery handed to logWebhookDelivery.
Delivery(call, success, statusCode) ==
    [webhookId |-> call.webhook.id, event |-> call.event,
     status |-> IF success THEN "success" ELSE "failed",
     statusCode |-> statusCode, attemptCount |-> 1]

\* The catch block: a failed delivery is to be logged, and the call will
\* resolve with success: false.
Caught(call) ==
    [call EXCEPT !.pc = "logging",
                 !.delivery = Delivery(call, FALSE, NoStatusCode),
                 !.result = [success |-> FALSE, statusCode |-> NoStatusCode]]

\* The call from the signature on: fetch is called.
Fetching(call) == [call EXCEPT !.pc = "fetching", !.attempts = call.attempts + 1]

\* sendWebhook(webhook, payload) is called: a disabled webhook returns at
\* once; with a secret the signature is awaited; without, fetch is called.
SendWebhook ==
    /\ Len(webhookCalls) < MaxSends
    /\ \E webhook \in Webhooks, event \in WebhookEvents :
          LET call == [webhook |-> webhook, event |-> event, pc |-> "called",
                       attempts |-> 0, delivery |-> NullV, result |-> NullV,
                       stored |-> FALSE]
          IN  webhookCalls' =
                  Append(webhookCalls,
                         IF ~webhook.enabled
                         THEN [call EXCEPT !.pc = "resolved",
                                           !.result = [success |-> FALSE,
                                                       statusCode |-> NoStatusCode]]
                         ELSE IF Truthy(webhook.secret)
                         THEN [call EXCEPT !.pc = "signing"]
                         ELSE Fetching(call))
    /\ UNCHANGED <<targetingVars, distribution, clientVars, flagCall, providerVars,
                   deliveries>>

\* generateSignature returns, and fetch is called; or it throws.
SignatureSettles ==
    /\ \E i \in 1 .. Len(webhookCalls), signed \in BOOLEAN :
          LET call == webhookCalls[i]
          IN  /\ call.pc = "signing"
              /\ webhookCalls' =
                     [webhookCalls EXCEPT ![i] =
                         IF signed THEN Fetching(call) ELSE Caught(call)]
    /\ UNCHANGED <<targetingVars, distribution, clientVars, flagCall, providerVars,
                   deliveries>>

\* The request gets a response, whose body is read when its status is ok; or
\* fetch throws, or the timeout of 10 s aborts it.
FetchSettles ==
    /\ \E i \in 1 .. Len(webhookCalls), answer \in FetchAnswers :
          LET call == webhookCalls[i]
          IN  /\ call.pc = "fetching"
              /\ webhookCalls' =
                     [webhookCalls EXCEPT ![i] =
                         IF answer = AnError THEN Caught(call)
                         ELSE IF ResponseOkStatus(answer)
                         THEN [call EXCEPT
                                  !.pc = "reading",
                                  !.result = [success |-> TRUE, statusCode |-> answer]]
                         ELSE [call EXCEPT
                                  !.pc = "logging",
                                  !.delivery = Delivery(call, FALSE, answer),
                                  !.result = [success |-> FALSE, statusCode |-> answer]]]
    /\ UNCHANGED <<targetingVars, distribution, clientVars, flagCall, providerVars,
                   deliveries>>

\* response.text() returns the body, or throws.
BodySettles ==
    /\ \E i \in 1 .. Len(webhookCalls), read \in BOOLEAN :
          LET call == webhookCalls[i]
          IN  /\ call.pc = "reading"
              /\ webhookCalls' =
                     [webhookCalls EXCEPT ![i] =
                         IF read
                         THEN [call EXCEPT
                                  !.pc = "logging",
                                  !.delivery = Delivery(call, TRUE, call.result.statusCode)]
                         ELSE Caught(call)]
    /\ UNCHANGED <<targetingVars, distribution, clientVars, flagCall, providerVars,
                   deliveries>>

\* logWebhookDelivery: addDoc stores the delivery, or throws and the error is
\* written to the console; sendWebhook returns.
LogSettles ==
    /\ \E i \in 1 .. Len(webhookCalls), stored \in BOOLEAN :
          /\ webhookCalls[i].pc = "logging"
          /\ deliveries' = IF stored
                           THEN Append(deliveries,
                                       [call |-> i, delivery |-> webhookCalls[i].delivery])
                           ELSE deliveries
          /\ webhookCalls' = [webhookCalls EXCEPT ![i].pc = "resolved",
                                                  ![i].stored = stored]
    /\ UNCHANGED <<targetingVars, distribution, clientVars, flagCall, providerVars>>

(***************************************************************************)
(* Specifications.                                                         *)
(***************************************************************************)
Init ==
    /\ hashCall = NoCall
    /\ rolloutCall = NoCall
    /\ condCall = NoCall
    /\ evalCall = NoCall
    /\ interleaved = 0
    /\ distribution = NewDistribution
    /\ config = NoClient
    /\ cache = NullV
    /\ now = 0
    /\ calls = <<>>
    /\ cleared = FALSE
    /\ flagCall = NoCall
    /\ props = NoProvider
    /\ context = NoProvider
    /\ fetches = <<>>
    /\ interval = NoProvider
    /\ deliveries = <<>>
    /\ webhookCalls = <<>>

\* One call of evaluateTargeting.
Next == Evaluate

Spec == Init /\ [][Next]_vars

\* A call of evaluateTargeting, evaluations for others, and the call repeated.
NextRepeated == EvaluateFirst \/ EvaluateOther \/ EvaluateAgain

SpecRepeated == Init /\ [][NextRepeated]_vars

\* One call of hashString or of isInRollout.
NextHash == CallHashString \/ CallIsInRollout

SpecHash == Init /\ [][NextHash]_vars

\* A client constructed with one of the TTLs, and nothing called yet.
InitClient ==
    /\ hashCall = NoCall
    /\ rolloutCall = NoCall
    /\ condCall = NoCall
    /\ evalCall = NoCall
    /\ interleaved = 0
    /\ distribution = NewDistribution
    /\ config \in {FlagshipClient(cacheTTL) : cacheTTL \in PassedTTLs}
    /\ cache = NullV
    /\ now = 0
    /\ calls = <<>>
    /\ cleared = FALSE
    /\ flagCall = NoCall
    /\ props = NoProvider
    /\ context = NoProvider
    /\ fetches = <<>>
    /\ interval = NoProvider
    /\ deliveries = <<>>
    /\ webhookCalls = <<>>

\* Calls of getFlags and clearCache on one client, the responses arriving
\* in any order, while time passes.
NextClient == GetFlags \/ ResponseOk \/ ResponseError \/ ClearCache \/ Tick

SpecClient == InitClient /\ [][NextClient]_vars

\* The loops of the distribution tests.
NextDistribution == DistributionStep

SpecDistribution == Init /\ [][NextDistribution]_vars

\* One evaluation for a user without id.
NextAnonymous == EvaluateAnonymous

SpecAnonymous == Init /\ [][NextAnonymous]_vars

\* One evaluation of a condition, alone or as the condition of a rule.
NextCondition == CallEvaluateCondition \/ EvaluateCondRule

SpecCondition == Init /\ [][NextCondition]_vars

\* One call of isEnabled or of getValue on a response.
NextAccessors == CallIsEnabled \/ CallGetValue

SpecAccessors == Init /\ [][NextAccessors]_vars

\* A provider over a client with the default TTL: it is mounted, rendered
\* with other users and refreshed while responses arrive in any order and
\* time passes, and a component reads a flag.
InitProvider ==
    /\ InitClient
    /\ config = FlagshipClient(UndefinedV)

NextProvider ==
    \/ Mount \/ UserChange \/ Refresh \/ IntervalFires
    \/ FetchResolves \/ FetchRejects \/ Tick \/ CallUseFlag

SpecProvider == InitProvider /\ [][NextProvider]_vars

\* Calls of sendWebhook, running side by side.
NextWebhooks ==
    SendWebhook \/ SignatureSettles \/ FetchSettles \/ BodySettles \/ LogSettles

SpecWebhooks == Init /\ [][NextWebhooks]_vars

\* One evaluation with falsy values.
NextFalsy == EvaluateFalsy

SpecFalsy == Init /\ [][NextFalsy]_vars

(***************************************************************************)
(* Properties of evaluateTargeting, stated on the recorded call.           *)
(***************************************************************************)
Called == evalCall.fn = "evaluateTargeting"

\* Targeting is configured and enabled in the recorded call.
TargetingOn == evalCall.targeting # NoTargeting /\ evalCall.targeting.enabled

\* The user of the recorded call has an id the code takes for one.
Identified == evalCall.user.id.t = "string" /\ evalCall.user.id.v # EmptyStr

RulesOfCall == evalCall.targeting.rules

\* Every condition of the rule matches the user of the recorded call.
ConditionsHold(rule) ==
    \A k \in 1 .. Len(rule.conditions) :
        evaluateConditionWithUser(rule.conditions[k], evalCall.user)

\* The rollout of this percentage includes the (identified) user of the call.
RolloutIncludes(percentage) ==
    isInRollout(evalCall.user.id.v, evalCall.flagKey, percentage)

\* The rule is enabled, its conditions match and its rollout includes the
\* (identified) user of the recorded call.
FullyMatches(rule) ==
    rule.enabled /\ ConditionsHold(rule) /\ RolloutIncludes(rule.rolloutPercentage)

\* The result in which this rule wins.
WinOf(rule) == [enabled |-> TRUE, value |-> rule.value]

\* C1: whenever targeting is absent or targeting.enabled is false, the result
\* is exactly {enabled: true, value: defaultValue}, whatever the flag key, the
\* user, the rules and the default rule are.
C1_DisabledBypass ==
    (Called /\ ~TargetingOn) =>
        evalCall.result = [enabled |-> TRUE, value |-> evalCall.defaultValue]

\* C1 witness: a disabled configuration whose first rule would match every user
\* and whose default rule is at 100%, evaluated to the caller's default value.
C1_Witness ==
    /\ Called
    /\ evalCall.targeting # NoTargeting
    /\ ~evalCall.targeting.enabled
    /\ Len(RulesOfCall) >= 1
    /\ RulesOfCall[1].enabled
    /\ RulesOfCall[1].conditions = <<>>
    /\ RulesOfCall[1].rolloutPercentage = Pct(100)
    /\ evalCall.targeting.defaultRule.rolloutPercentage = Pct(100)
    /\ evalCall.result = [enabled |-> TRUE, value |-> evalCall.defaultValue]

\* C2: with targeting enabled and an identified user, the result is
\* {enabled: true, value: r.value} for the lowest-index rule r that is enabled,
\* has all conditions matching and includes the user in its rollout; a later
\* matching rule never overrides it.
C2_FirstMatchWins ==
    (Called /\ TargetingOn /\ Identified) =>
        \A i \in 1 .. Len(RulesOfCall) :
            (/\ FullyMatches(RulesOfCall[i])
             /\ \A j \in 1 .. (i - 1) : ~FullyMatches(RulesOfCall[j]))
            => evalCall.result = WinOf(RulesOfCall[i])

\* C2 witness: two rules fully match an identified user, the first through a
\* 50% rollout, and the first one's value is returned.
C2_Witness ==
    /\ Called /\ TargetingOn /\ Identified
    /\ Len(RulesOfCall) >= 2
    /\ RulesOfCall[1].rolloutPercentage = Pct(50)
    /\ FullyMatches(RulesOfCall[1])
    /\ FullyMatches(RulesOfCall[2])
    /\ evalCall.result = WinOf(RulesOfCall[1])

\* The rollout of the rule excludes the user of the recorded call: it is 0%, or
\* the user is identified and not in its bucket range.
RolloutExcludes(rule) ==
    \/ rule.rolloutPercentage = Pct(0)
    \/ Identified /\ ~RolloutIncludes(rule.rolloutPercentage)

\* C3: a first rule whose conditions match and whose rollout excludes the user
\* counts as non-matching: when the second rule is enabled, at 100% and its
\* conditions match, the result is the second rule's value with enabled true.
C3_CascadeOnRolloutMiss ==
    (/\ Called /\ TargetingOn
     /\ Len(RulesOfCall) >= 2
     /\ RulesOfCall[1].enabled /\ ConditionsHold(RulesOfCall[1])
     /\ RolloutExcludes(RulesOfCall[1])
     /\ RulesOfCall[2].enabled /\ ConditionsHold(RulesOfCall[2])
     /\ RulesOfCall[2].rolloutPercentage = Pct(100))
    => evalCall.result = WinOf(RulesOfCall[2])

\* C3 witness: first rule at 0% with matching conditions, second rule at 100%
\* with other conditions, default rule at 100%: the second rule's value.
C3_Witness ==
    /\ Called /\ TargetingOn
    /\ Len(RulesOfCall) = 2
    /\ RulesOfCall[1].enabled /\ ConditionsHold(RulesOfCall[1])
    /\ RulesOfCall[1].conditions # <<>>
    /\ RulesOfCall[1].rolloutPercentage = Pct(0)
    /\ RulesOfCall[2].enabled
    /\ RulesOfCall[2].conditions = <<>>
    /\ RulesOfCall[2].rolloutPercentage = Pct(100)
    /\ evalCall.targeting.defaultRule.rolloutPercentage = Pct(100)
    /\ evalCall.result = WinOf(RulesOfCall[2])

\* C4: an enabled first rule at 100% wins if and only if every one of its
\* conditions matches the user; with an empty condition list an enabled rule
\* is gated by its rollout percentage alone.
C4_AndLogic ==
    (Called /\ TargetingOn /\ Len(RulesOfCall) >= 1 /\ RulesOfCall[1].enabled) =>
        LET rule == RulesOfCall[1]
            wins == evalCall.result = WinOf(rule)
        IN  /\ rule.rolloutPercentage = Pct(100) => (wins <=> ConditionsHold(rule))
            /\ rule.conditions = <<>> =>
                  /\ rule.rolloutPercentage = Pct(100) => wins
                  /\ rule.rolloutPercentage = Pct(0) => ~wins
                  /\ Identified => (wins <=> RolloutIncludes(rule.rolloutPercentage))

\* C4 witness: a first rule at 100% with two conditions of which the user
\* matches the first only: the rule does not win.
C4_Witness ==
    /\ Called /\ TargetingOn
    /\ Len(RulesOfCall) >= 1
    /\ RulesOfCall[1].enabled
    /\ RulesOfCall[1].rolloutPercentage = Pct(100)
    /\ Len(RulesOfCall[1].conditions) = 2
    /\ evaluateConditionWithUser(RulesOfCall[1].conditions[1], evalCall.user)
    /\ ~evaluateConditionWithUser(RulesOfCall[1].conditions[2], evalCall.user)
    /\ evalCall.result # WinOf(RulesOfCall[1])

\* The sequence without its element at index i.
Without(seq, i) == [k \in 1 .. (Len(seq) - 1) |-> IF k < i THEN seq[k] ELSE seq[k + 1]]

\* C5: a rule with enabled = false never produces the result: the call returns
\* what it returns with that rule removed from targeting.rules.
C5_DisabledRuleSkipped ==
    (Called /\ evalCall.targeting # NoTargeting) =>
        \A results \in {evaluateTargeting(evalCall.flagKey, evalCall.targeting,
                                           evalCall.user, evalCall.defaultValue)} :
            /\ evalCall.result \in results
            /\ \A i \in 1 .. Len(RulesOfCall) :
                   ~RulesOfCall[i].enabled =>
                       LET removed == [evalCall.targeting EXCEPT
                                           !.rules = Without(RulesOfCall, i)]
                       IN  evaluateTargeting(evalCall.flagKey, removed, evalCall.user,
                                             evalCall.defaultValue) = results

\* C5 witness: a disabled first rule at 100% whose conditions match the user,
\* in an enabled configuration; the result is not that rule's value.
C5_Witness ==
    /\ Called /\ TargetingOn
    /\ Len(RulesOfCall) >= 1
    /\ ~RulesOfCall[1].enabled
    /\ RulesOfCall[1].conditions # <<>>
    /\ ConditionsHold(RulesOfCall[1])
    /\ RulesOfCall[1].rolloutPercentage = Pct(100)
    /\ evalCall.result # WinOf(RulesOfCall[1])

\* C6: when targeting is enabled and no rule fully matches an identified user,
\* the result is {enabled: isInRollout(user.id, flagKey,
\* defaultRule.rolloutPercentage), value: defaultRule.value}; the caller's
\* defaultValue is not returned on this path.
C6_NoMatchFallback ==
    (/\ Called /\ TargetingOn /\ Identified
     /\ \A i \in 1 .. Len(RulesOfCall) : ~FullyMatches(RulesOfCall[i]))
    => /\ evalCall.result =
              [enabled |-> RolloutIncludes(evalCall.targeting.defaultRule.rolloutPercentage),
               value |-> evalCall.targeting.defaultRule.value]
       /\ evalCall.result.value # evalCall.defaultValue

\* C6 witness: a rule whose conditions match misses its 50% rollout, and the
\* default rule at 50% excludes the user too: enabled false, defaultRule.value.
C6_Witness ==
    /\ Called /\ TargetingOn /\ Identified
    /\ Len(RulesOfCall) >= 1
    /\ RulesOfCall[1].enabled /\ ConditionsHold(RulesOfCall[1])
    /\ RulesOfCall[1].rolloutPercentage = Pct(50)
    /\ \A i \in 1 .. Len(RulesOfCall) : ~FullyMatches(RulesOfCall[i])
    /\ evalCall.targeting.defaultRule.rolloutPercentage = Pct(50)
    /\ evalCall.result =
           [enabled |-> FALSE, value |-> evalCall.targeting.defaultRule.value]

\* The recorded call has been repeated.
Repeated == Called /\ evalCall.again # NoResult

\* C7 as stated: for every user whose id is supplied, two calls with the same
\* arguments return the same result, whatever is evaluated in between.
C7_DeterministicWhenIdSupplied ==
    (Repeated /\ evalCall.user.id # UndefinedV) => evalCall.again = evalCall.result

\* C7, amended: for every user whose id is a non-empty string, two calls with
\* the same arguments return the same result, whatever is evaluated in
\* between; a random choice is made only when user.id is absent or empty.
C7_DeterministicWhenIdentified ==
    (Repeated /\ Identified) => evalCall.again = evalCall.result

\* C7 witness: an identified user gated by a 50% rule, evaluated, then another
\* evaluation, then evaluated again with the same result.
C7_Witness ==
    /\ Repeated /\ TargetingOn /\ Identified
    /\ interleaved >= 1
    /\ Len(RulesOfCall) >= 1
    /\ RulesOfCall[1].enabled /\ ConditionsHold(RulesOfCall[1])
    /\ RulesOfCall[1].rolloutPercentage = Pct(50)
    /\ evalCall.again = evalCall.result

\* The rule can fail to match the user of the recorded call: it is disabled,
\* or a condition fails, or its rollout excludes the user; for a user without
\* id, or some bucket drawn is not below its percentage.
MayMiss(rule) ==
    \/ ~rule.enabled
    \/ ~ConditionsHold(rule)
    \/ IF Identified THEN ~RolloutIncludes(rule.rolloutPercentage)
       ELSE \E random \in RandomDraws :
                ~BucketBelow(random.bucket, rule.rolloutPercentage)

\* The rule matches the user of the recorded call whatever is drawn.
MustMatch(rule) == ~MayMiss(rule)

\* The rollout of the default rule can exclude the user of the recorded call.
DefaultMayExclude ==
    LET percentage == evalCall.targeting.defaultRule.rolloutPercentage
    IN  IF Identified THEN ~RolloutIncludes(percentage)
        ELSE \E random \in RandomDraws :
                 ~isInRollout(Str_anon \o random.text, evalCall.flagKey, percentage)

\* C27: in every result, enabled = false implies that targeting is present
\* and enabled, that no rule fully matched, that the rollout of the default
\* rule excluded the user and that value is defaultRule.value; whenever a rule
\* wins or targeting is bypassed the result has enabled = true, also when the
\* value returned is falsy.
C27_DisabledOnlyByDefaultRule ==
    Called =>
        /\ ~evalCall.result.enabled =>
               /\ TargetingOn
               /\ \A i \in 1 .. Len(RulesOfCall) : MayMiss(RulesOfCall[i])
               /\ DefaultMayExclude
               /\ evalCall.result.value = evalCall.targeting.defaultRule.value
        /\ ~TargetingOn =>
               evalCall.result = [enabled |-> TRUE, value |-> evalCall.defaultValue]
        /\ (TargetingOn /\ \E i \in 1 .. Len(RulesOfCall) : MustMatch(RulesOfCall[i])) =>
               /\ evalCall.result.enabled
               /\ \E i \in 1 .. Len(RulesOfCall) :
                      evalCall.result.value = RulesOfCall[i].value

\* C27 witness: a user without id, one open rule at 50% whose value is false
\* and a default rule at 50%: the result is not enabled and carries the value
\* of the default rule.
C27_Witness ==
    /\ Called /\ TargetingOn /\ ~Identified
    /\ Len(RulesOfCall) = 1
    /\ RulesOfCall[1].enabled /\ RulesOfCall[1].conditions = <<>>
    /\ RulesOfCall[1].rolloutPercentage = Pct(50)
    /\ RulesOfCall[1].value = BoolV(FALSE)
    /\ evalCall.targeting.defaultRule.rolloutPercentage = Pct(50)
    /\ evalCall.result = [enabled |-> FALSE, value |-> StrV(EmptyStr)]

(***************************************************************************)
(* Properties of isInRollout and hashString, stated on the recorded call.  *)
(***************************************************************************)
RolloutCalled == rolloutCall.fn = "isInRollout"

HashCalled == hashCall.fn = "hashString"

\* C8: isInRollout returns false for every percentage <= 0 and true for every
\* percentage >= 100, negative, above 100 and non-integer ones included, for
\* every user id (the empty one too) and flag key.
C8_RolloutBounds ==
    RolloutCalled =>
        /\ rolloutCall.percentage <= Pct(0) => rolloutCall.ret = FALSE
        /\ rolloutCall.percentage >= Pct(100) => rolloutCall.ret = TRUE

\* C8 witness: a negative non-integer percentage, with a user and flag whose
\* accumulator ends negative: not in the rollout.
C8_Witness ==
    /\ RolloutCalled
    /\ rolloutCall.percentage = 0 - 1
    /\ IsNegative(HashAccumulator(rolloutCall.flagKey \o Colon \o rolloutCall.userId))
    /\ rolloutCall.ret = FALSE

C10_HashRange ==
    HashCalled => hashCall.ret \in 0 .. 99

\* C10 witness: a string whose accumulator ends at -2^31, hashed to 48.
C10_Witness ==
    /\ HashCalled
    /\ HashAccumulator(hashCall.str) = Int32Min
    /\ hashCall.ret = 48

(***************************************************************************)
(* The reference rolling hash: h := h * 31 + charCode with 32-bit          *)
(* two's-complement wraparound, then |h| mod 100.                          *)
(***************************************************************************)
\* h * 31 + c modulo 2^32, multiplied half by half with the carry.
RefStep(h, c) ==
    LET lo == h[2] * 31 + c
    IN  <<(h[1] * 31 + (lo \div Half)) % Half, lo % Half>>

RECURSIVE RefLoop(_, _, _)
RefLoop(str, i, h) ==
    IF i > Len(str) THEN h
    ELSE CHOOSE result \in {RefLoop(str, i + 1, next) :
                               next \in {RefStep(h, str[i])}} : TRUE

\* The two's-complement reading of the 32 bits: an integer in -2^31 .. 2^31 - 1.
RefSigned(h) ==
    IF h[1] >= 32768 THEN (h[1] - Half) * Half + h[2] ELSE h[1] * Half + h[2]

\* |n| mod 100, computed without forming |n|.
RefAbsMod100(n) == IF n < 0 THEN (100 - (n % 100)) % 100 ELSE n % 100

RefHash(str) == RefAbsMod100(RefSigned(RefLoop(str, 1, Int32Zero)))

\* C11: for every string hashString equals the reference rolling hash
\* (h := h * 31 + charCode wrapped to 32 bits, then |h| mod 100); the hash of
\* the empty string is 0; and at every step of the loop the shift-and-subtract
\* form yields the accumulator the multiply-by-31 form yields.
C11_HashIsReference ==
    HashCalled =>
        /\ hashCall.ret = RefHash(hashCall.str)
        /\ hashCall.str = EmptyStr => hashCall.ret = 0
        /\ \A i \in 1 .. Len(hashCall.str) :
               LET before == HashAccumulator(SubSeq(hashCall.str, 1, i - 1))
               IN  /\ before = RefLoop(SubSeq(hashCall.str, 1, i - 1), 1, Int32Zero)
                   /\ HashStep(before, hashCall.str[i]) = RefStep(before, hashCall.str[i])

\* C11 witness: 'test-user-123', whose accumulator wraps around and ends
\* negative, hashed to 73 as the reference has it.
C11_Witness ==
    /\ HashCalled
    /\ hashCall.str = Str_testUser123
    /\ IsNegative(HashAccumulator(hashCall.str))
    /\ hashCall.ret = 73
    /\ RefHash(hashCall.str) = 73

\* C25: rollout membership is monotone in the percentage: for every user id
\* and flag key and every p <= p', isInRollout(u, f, p) implies
\* isInRollout(u, f, p'), across the special cases 0 and 100 too, in both
\* copies.
C25_Monotone ==
    RolloutCalled =>
        \A higher \in RolloutPercentages :
            rolloutCall.percentage <= higher =>
                /\ rolloutCall.ret =>
                       isInRollout(rolloutCall.userId, rolloutCall.flagKey, higher)
                /\ rolloutCall.libRet =>
                       lib_isInRollout(rolloutCall.userId, rolloutCall.flagKey, higher)

\* C25 witness: the user is in the rollout at a percentage between 0 and 100
\* and not in it half a percent below, and is in it at 100 and above.
C25_Witness ==
    /\ RolloutCalled
    /\ Pct(0) < rolloutCall.percentage /\ rolloutCall.percentage < Pct(100)
    /\ rolloutCall.ret /\ rolloutCall.libRet
    /\ ~isInRollout(rolloutCall.userId, rolloutCall.flagKey, rolloutCall.percentage - 1)
    /\ isInRollout(rolloutCall.userId, rolloutCall.flagKey, Pct(100))
    /\ isInRollout(rolloutCall.userId, rolloutCall.flagKey, Pct(100) + 1)

\* C26: the two implementations of the rollout are equivalent: for every
\* user id, flag key and percentage, isInRollout of lib/targeting.ts (whose
\* hashString returns the 32-bit magnitude, reduced mod 100 in isInRollout)
\* and isInRollout of part_005 (whose hashString returns the magnitude mod
\* 100) return the same boolean.
C26_SameRollout ==
    RolloutCalled => rolloutCall.ret = rolloutCall.libRet

\* C26 witness: both include a user whose accumulator ends negative, at a
\* percentage between 0 and 100, and both exclude the user half a percent
\* below.
C26_Witness ==
    /\ RolloutCalled
    /\ Pct(0) < rolloutCall.percentage - 1 /\ rolloutCall.percentage < Pct(100)
    /\ IsNegative(HashAccumulator(rolloutCall.flagKey \o Colon \o rolloutCall.userId))
    /\ rolloutCall.ret /\ rolloutCall.libRet
    /\ ~lib_isInRollout(rolloutCall.userId, rolloutCall.flagKey, rolloutCall.percentage - 1)

(***************************************************************************)
(* Properties of evaluateCondition, stated on the recorded call.           *)
(***************************************************************************)
CondCalled == condCall.fn = "evaluateCondition"

\* The user of the recorded call does not have the attribute of the condition.
AttributeMissing ==
    \/ condCall.user.attributes.t = "undefined"
    \/ condCall.condition.attribute \notin DOMAIN condCall.user.attributes.v

\* C12: a condition on an attribute the user does not have (missing from
\* user.attributes, or user.attributes absent) evaluates to false for every
\* operator, ne included, in both copies of the evaluator.
C12_MissingAttributeIsFalse ==
    (CondCalled /\ AttributeMissing) => condCall.ret = FALSE /\ condCall.libRet = FALSE

\* The elements a condition value of the operator 'in' lists: those of the
\* array, or the pieces of the comma-separated string.
ListedElements(conditionValue) ==
    IF conditionValue.t = "array" THEN conditionValue.v
    ELSE LET pieces == split(conditionValue.v)
         IN  [i \in 1 .. Len(pieces) |-> StrV(trim(pieces[i]))]

\* C13: for the operator in, with a condition value that is an array or a
\* comma-separated string, both copies of the evaluator return true exactly
\* when the user value is strictly equal to one of the listed elements.
C13_InListsBothForms ==
    (/\ CondCalled
     /\ condCall.condition.operator = "in"
     /\ condCall.userValue # UndefinedV
     /\ condCall.condition.value.t \in {"array", "string"})
    => LET listed == ListedElements(condCall.condition.value)
           isListed == \E i \in 1 .. Len(listed) :
                          StrictEquals(listed[i], condCall.userValue)
       IN  condCall.ret = isListed /\ condCall.libRet = isListed

\* C14: for gt, lt, gte and lte both sides are coerced to numbers and the
\* result is their numeric comparison; when either side coerces to NaN the
\* result is false for all four operators.
C14_NumericComparison ==
    (CondCalled /\ condCall.condition.operator \in {"gt", "lt", "gte", "lte"}) =>
        LET operator == condCall.condition.operator
            a == Number(condCall.userValue)
            b == Number(condCall.condition.value)
            expected ==
                IF IsNaN(a) \/ IsNaN(b) THEN FALSE
                ELSE CASE operator = "gt" -> a.v > b.v
                       [] operator = "lt" -> a.v < b.v
                       [] operator = "gte" -> a.v >= b.v
                       [] operator = "lte" -> a.v <= b.v
        IN  condCall.ret = expected /\ condCall.libRet = expected

\* C14 witness: the string '5' is gte the number 5, and not gte the string
\* 'TR', which coerces to NaN.
C14_Witness ==
    /\ CondCalled
    /\ condCall.condition.operator = "gte"
    /\ condCall.userValue = StrV(Str_5)
    /\ condCall.condition.value = NumV(5)
    /\ condCall.ret = TRUE
    /\ ~evaluateCondition(condCall.userValue, "gte", StrV(Str_TR))

KnownOperators == {"eq", "ne", "contains", "in", "gt", "lt", "gte", "lte"}

\* What evaluateTargeting returns when no rule wins: enabled decided by the
\* default rule's rollout, and the default rule's value.
DefaultOutcomes ==
    [enabled : BOOLEAN, value : {evalCall.targeting.defaultRule.value}]

\* C15: evaluation is total: for every input (targeting absent, disabled or
\* enabled; no rule or a rule; user with or without id and attributes; a
\* condition with an unknown operator or a value of the wrong shape) the call
\* returns a result with the fields enabled, a boolean, and value; and a
\* condition with an unknown operator is false, so its rule never wins.
C15_Total ==
    /\ Called =>
           /\ DOMAIN evalCall.result = {"enabled", "value"}
           /\ evalCall.result.enabled \in BOOLEAN
    /\ (CondCalled /\ condCall.condition.operator \notin KnownOperators) =>
           condCall.ret = FALSE /\ condCall.libRet = FALSE
    /\ (/\ Called /\ TargetingOn
         /\ Len(RulesOfCall) = 1
         /\ RulesOfCall[1].conditions[1].operator \notin KnownOperators)
        => evalCall.result \in DefaultOutcomes

\* C15 witness: a user without id who has the attribute, and a rule whose
\* condition on it has an unknown operator and an array for a value: the
\* switch takes its default case and the default rule decides.
C15_Witness ==
    /\ Called /\ TargetingOn
    /\ evalCall.user.id = UndefinedV
    /\ Len(RulesOfCall) = 1
    /\ RulesOfCall[1].conditions[1].operator = "regex"
    /\ RulesOfCall[1].conditions[1].value.t = "array"
    /\ AttributeOf(evalCall.user, RulesOfCall[1].conditions[1].attribute) = StrV(Str_TR)
    /\ evalCall.result \in DefaultOutcomes

(***************************************************************************)
(* The rollout gate for a user without id.                                 *)
(***************************************************************************)
\* The recorded call is for a user without id, with targeting enabled.
AnonymousCalled == Called /\ TargetingOn /\ evalCall.user.id = UndefinedV

\* The outcomes of isInRollout for a fresh random identifier.
FreshRandomIds == {Str_anon \o random.text : random \in RandomDraws}
FreshIdGate(percentage) ==
    {isInRollout(userId, evalCall.flagKey, percentage) : userId \in FreshRandomIds}

\* The outcomes of the gate of the first rule of the recorded call.
RuleGate ==
    {result.matches :
        result \in {evaluateRule(RulesOfCall[1], evalCall.user, evalCall.flagKey, random) :
                        random \in DrawsFor(evalCall.user)}}

\* The outcomes of the gate of the default rule of the recorded call.
DefaultGate ==
    {result.enabled :
        result \in DefaultRuleResults(evalCall.flagKey, evalCall.targeting, evalCall.user)}

\* The outcomes as stated: never at or below 0, always at or above 100, both
\* in between.
StatedGate(percentage) ==
    IF percentage <= Pct(0) THEN {FALSE}
    ELSE IF percentage >= Pct(100) THEN {TRUE}
    ELSE {TRUE, FALSE}

\* The outcomes with buckets that are the integers 0 .. 99: above 99 every
\* bucket is below the percentage.
IntegerBucketGate(percentage) ==
    IF percentage <= Pct(0) THEN {FALSE}
    ELSE IF percentage > Pct(99) THEN {TRUE}
    ELSE {TRUE, FALSE}

\* The gates of the recorded call have the outcomes Gate gives, the rule's
\* being those of isInRollout for a fresh random identifier, and the result
\* is one of them.
AnonymousGatesAre(Gate(_)) ==
    AnonymousCalled =>
        LET q == evalCall.targeting.defaultRule.rolloutPercentage
        IN  /\ Len(RulesOfCall) = 0 =>
                   /\ DefaultGate = Gate(q)
                   /\ evalCall.result.enabled \in Gate(q)
            /\ Len(RulesOfCall) = 1 =>
                   LET p == RulesOfCall[1].rolloutPercentage
                   IN  /\ RuleGate = Gate(p)
                       /\ RuleGate = FreshIdGate(p)
                       /\ FALSE \notin Gate(p) => evalCall.result = WinOf(RulesOfCall[1])
                       /\ TRUE \notin Gate(p) => evalCall.result.value # RulesOfCall[1].value

\* C16 as stated: when user.id is absent, the rollout gate of a rule and of
\* the default rule has the outcomes of isInRollout for a fresh random
\* identifier: never included at a percentage <= 0, always at >= 100, and
\* both possible for 0 < percentage < 100.
C16_AnonymousGateAsStated == AnonymousGatesAre(StatedGate)

\* C16, amended: when user.id is absent, the rollout gate of a rule and of the
\* default rule has the outcomes of isInRollout for a fresh random identifier:
\* never included at a percentage <= 0, always at a percentage > 99, and both
\* possible for 0 < percentage <= 99.
C16_AnonymousGate == AnonymousGatesAre(IntegerBucketGate)

\* C16 witness: a user without id and an open rule at 50%: the gate can go
\* either way, as it can for a fresh random identifier, and here the rule
\* lost and the default rule decided.
C16_Witness ==
    /\ AnonymousCalled
    /\ Len(RulesOfCall) = 1
    /\ RulesOfCall[1].rolloutPercentage = Pct(50)
    /\ RuleGate = {TRUE, FALSE}
    /\ FreshIdGate(Pct(50)) = {TRUE, FALSE}
    /\ evalCall.result.value = evalCall.targeting.defaultRule.value

C18_EvenSplit ==
    distribution.i = totalUsers =>
        /\ distribution.includedCount > 30 /\ distribution.includedCount < 70
        /\ distribution.enabledCount > 30 /\ distribution.enabledCount < 70

\* C18 witness: the loops have run over the 100 users, and both counted 46.
C18_Witness ==
    /\ distribution.i = totalUsers
    /\ distribution.includedCount = 46
    /\ distribution.enabledCount = 46

(***************************************************************************)
(* Properties of the cache of FlagshipClient.                              *)
(***************************************************************************)
\* The TTL the client was configured with: what the caller passed, or the
\* default when the caller passed none.
ConfiguredTTL ==
    IF config.passed = UndefinedV THEN DefaultCacheTTL ELSE config.passed.v

\* C19: with cacheTTL = T passed (every T >= 0; 60000 when omitted), a call of
\* getFlags returns the cached response without a request if and only if a
\* response was cached less than T ms before the call; a response of age T or
\* more is not served.
C19_ServedWithinTTL ==
    \A i \in 1 .. Len(calls) :
        calls[i].hit <=>
            (calls[i].cached /\ calls[i].age < ConfiguredTTL)

\* C20: the first call of getFlags after clearCache() has returned sends a
\* request and does not return a cached response, also when clearCache() was
\* called while an earlier request was awaiting its response.
C20_FetchAfterClear ==
    \A i \in 1 .. Len(calls) : calls[i].afterClear => ~calls[i].hit

\* A call of getFlags has returned a response.
Returned(i) == calls[i].pc = "returned"

\* C21: the cache is keyed by user: getFlags(user) never returns a response
\* that was fetched and cached for another user, in every sequence of calls
\* of getFlags on one client within the TTL.
C21_CacheKeyedByUser ==
    \A i \in 1 .. Len(calls) :
        Returned(i) => calls[i].result.user = calls[i].user

(***************************************************************************)
(* Properties of isEnabled and getValue, stated on the recorded call.      *)
(***************************************************************************)
\* The flag asked for is not among the flags of the response.
FlagMissing == flagCall.flagKey \notin DOMAIN flagCall.flags.flags.v

\* The flag asked for, when the response has it.
FlagAsked == flagCall.flags.flags.v[flagCall.flagKey]

\* C22: for every response and flag key, getValue returns the caller's
\* defaultValue when the flag is missing or has enabled = false and flag.value
\* otherwise; isEnabled returns false for a missing flag and flag.enabled
\* otherwise.
C22_ValueOnlyWhenEnabled ==
    /\ flagCall.fn = "getValue" =>
           flagCall.ret = IF FlagMissing \/ FlagAsked.v.enabled = BoolV(FALSE)
                          THEN flagCall.defaultValue
                          ELSE FlagAsked.v.value
    /\ flagCall.fn = "isEnabled" =>
           flagCall.ret = IF FlagMissing THEN BoolV(FALSE) ELSE FlagAsked.v.enabled

(***************************************************************************)
(* Properties of FlagshipProvider and useFlag.                             *)
(***************************************************************************)
UseFlagCalled == flagCall.fn = "useFlag"

\* The flags the provider held when useFlag was called.
FlagsHeld == flagCall.context.flags.flags.v

\* C23: while the provider has no loaded flags or is loading, useFlag returns
\* enabled = false and value = defaultValue; once flags are loaded and loading
\* is false it returns the flag's value (with the flag's enabled) only if the
\* flag exists and is enabled, and defaultValue with enabled = false for a
\* missing or disabled flag.
C23_UseFlagGated ==
    UseFlagCalled =>
        LET ret == flagCall.ret
            off == ret.enabled = BoolV(FALSE) /\ ret.value = flagCall.defaultValue
        IN  IF flagCall.context.flags = NullV \/ flagCall.context.loading
            THEN off
            ELSE IF flagCall.flagKey \notin DOMAIN FlagsHeld THEN off
            ELSE IF FlagsHeld[flagCall.flagKey].v.enabled = BoolV(FALSE) THEN off
            ELSE /\ ret.enabled = BoolV(TRUE)
                 /\ ret.value = FlagsHeld[flagCall.flagKey].v.value

\* The fetchFlags that was started last.
LastFetch == fetches[Len(fetches)]

\* C29: when the user prop changes, or a refresh or the interval fires, while
\* an earlier fetch is in flight, then after all fetches have settled the
\* flags of the provider are the response of the fetch that was started last,
\* for the latest user: a slower response of an earlier fetch does not
\* overwrite the newer one.
C29_LastFetchWins ==
    (fetches # <<>> /\ InFlight = {} /\ LastFetch.pc = "resolved") =>
        /\ context.flags = LastFetch.result
        /\ context.flags.user = props.user

\* C30: loading is true in every state in which a fetchFlags call is in
\* flight, and becomes false only after the last fetch in flight has settled.
C30_LoadingWhileInFlight ==
    InFlight # {} => context.loading

(***************************************************************************)
(* Properties of sendWebhook.                                              *)
(***************************************************************************)
\* The deliveries that the i-th call of sendWebhook has logged.
EntriesOf(i) == {k \in 1 .. Len(deliveries) : deliveries[k].call = i}

\* What holds of every call for an enabled webhook whatever the log does: at
\* most one request is made; every entry it logs has attemptCount = 1 and has
\* the status 'success' exactly when the call resolves with success: true;
\* and the call is on its way or has resolved.
OneAttempt(i) ==
    /\ webhookCalls[i].attempts <= 1
    /\ webhookCalls[i].pc \in {"signing", "fetching", "reading", "logging", "resolved"}
    /\ \A k \in EntriesOf(i) :
           /\ deliveries[k].delivery.attemptCount = 1
           /\ deliveries[k].delivery.status = "success" <=> webhookCalls[i].result.success

EnabledCalls == {i \in 1 .. Len(webhookCalls) : webhookCalls[i].webhook.enabled}

RejectedNow(i) ==
    i <= Len(calls) /\ calls[i].pc = "fetching" /\ calls'[i].pc = "rejected"

\* C28: a failed fetch never changes the cache: when the API answers with a
\* status that is not OK, or the request fails, getFlags rejects and the entry
\* of the cache and its timestamp are what they were; an expired entry is not
\* served as a fallback, and a failure does not extend the life of an entry.
C28_FailureLeavesCache ==
    [][/\ \A i \in 1 .. Len(calls') :
              RejectedNow(i) => /\ cache' = cache
                                /\ calls'[i].result = NullV
                                /\ ~calls'[i].hit
       /\ Len(calls') > Len(calls) => cache' = cache]_vars

\* C28 witness: a call that found an expired entry was rejected, and the cache
\* still holds that entry, expired, with the timestamp of the first response.
C28_Witness ==
    /\ Len(calls) = 2
    /\ calls[1].pc = "returned"
    /\ calls[2].pc = "rejected" /\ calls[2].cached /\ calls[2].result = NullV
    /\ cache # NullV
    /\ cache.data.fetchedBy = 1
    /\ cache.timestamp = 0
    /\ now - cache.timestamp >= config.cacheTTL

====
